---- MODULE Spec2Model ----
(***************************************************************************)
(* Model of swag-doc's schema inference and merging engine:                *)
(*   pkg/parser  SchemaMerger, mergeSchema, MergeRequestBody               *)
(*   pkg/parser  TypeInferrer (sample collector and schema refiner)        *)
(*                                                                         *)
(* Conventions                                                             *)
(*   - A Go pointer, map or interface value that may be nil is a sequence  *)
(*     of length 0 (Nil) or 1 (Some(x)).                                   *)
(*   - A Go string that the code concatenates or measures is a sequence    *)
(*     of tokens; concatenation is \o.                                     *)
(*   - Go map iteration order is unspecified: every operator that ranges   *)
(*     over a map to build a slice takes the iteration order `it` as a     *)
(*     parameter, and the actions choose it with \E.                       *)
(***************************************************************************)
EXTENDS Integers, Sequences, FiniteSets, TLC

VARIABLES
    schemas,      \* SchemaMerger.schemas: key -> sequence of Schema
    calls,        \* log of the AddSchema calls made so far, in call order
    merged,       \* value returned by the last SchemaMerger call (Nil: none)
    pair,         \* last direct mergeSchema evaluation: inputs and results
    reqBodies,    \* argument list of MergeRequestBody
    mergedBody,   \* value returned by MergeRequestBody
    maxSamplesArg,\* the maxSamples argument NewTypeInferrer was called with
    maxSamples,   \* TypeInferrer.maxSamples
    samples,      \* TypeInferrer.samples: path -> sequence of values
    nullFed,      \* paths the caller fed a null since the samples were cleared
    feed,         \* the values the caller of this run feeds to AddSample
    lastOp,       \* the last TypeInferrer call and what it returned
    strRun,       \* last direct enhanceStringSchema evaluation
    heap,         \* the maps and pointed-to schemas allocated so far, by address
    frame,        \* last call on schemas held in the heap: arguments and result
    transactions, \* OpenAPIGenerator.transactions
    generated     \* what GenerateSpec did (Nil: not called)

vars == <<schemas, calls, merged, pair, reqBodies, mergedBody,
          maxSamplesArg, maxSamples, samples, nullFed, feed, lastOp, strRun,
          heap, frame, transactions, generated>>

mergerVars == <<schemas, calls, merged>>
bodyVars == <<reqBodies, mergedBody>>
inferVars == <<maxSamplesArg, maxSamples, samples, nullFed, feed, lastOp>>
heapVars == <<heap, frame>>
genVars == <<transactions, generated>>

----------------------------------------------------------------------------
(* Optional values and small helpers *)

Nil == <<>>
Some(x) == <<x>>

Max(a, b) == IF a >= b THEN a ELSE b

Range(s) == {s[i] : i \in 1..Len(s)}

\* The elements of set S in the order they occur in the duplicate-free
\* sequence order.
OrderBy(order, S) == SelectSeq(order, LAMBDA x : x \in S)

RECURSIVE Perms(_)
\* All orderings (duplicate-free sequences) of the finite set S.
Perms(S) ==
    IF S = {} THEN {<<>>}
    ELSE UNION {{<<x>> \o p : p \in Perms(S \ {x})} : x \in S}

\* All sequences over S of length at most n.
SeqsUpTo(S, n) == UNION {[1..k -> S] : k \in 0..n}

EmptyMap == [n \in {} |-> Nil]

----------------------------------------------------------------------------
(* Bounds of the model *)

\* Longest enum list of a schema handed to mergeSchema.
MaxEnumLen == 2
\* Number of AddSchema calls made on one SchemaMerger.
MaxAdds == 3
\* Longest argument list of MergeRequestBody.
MaxBodies == 3
\* Most schemas added to the bucket handed to a direct MergeSchemas call.
MaxFold == 3
\* Largest maxSamples argument given to NewTypeInferrer.
MaxCap == 4
\* Longest sample list handed to enhanceStringSchema, and the most distinct
\* strings in it.
MaxStrSamples == 11
MaxDistinct == 6
\* Most samples held by the path handed to a direct mixed-type inference.
MaxMixed == 10
\* Largest number, in halves, handed to a direct inference from one number.
MaxHalves == 85
\* Most samples held by the path handed to a direct property inference.
MaxObjSamples == 4

\* Longest list of numbers handed to a direct number enhancement.
MaxNumSamples == 4

\* Arrays fed to enhanceArraySchema: items per array, and arrays per path.
MaxArrLen == 2
MaxArrSamples == 2

\* The AddSchema calls made before the merges on heap-held schemas.
MaxHeapAdds == 2

\* The samples handed to ApplyTypeInference.
MaxApplySamples == 2

\* The transactions added to an OpenAPIGenerator.
MaxTx == 2

----------------------------------------------------------------------------
(* Schema (pkg/parser/parser.go) *)

EnumVals == {"red", "green"}
Names == {"id", "name"}

\* The iteration orders a run may see: one over enum values, one over names.
Iters == [enum : Perms(EnumVals), names : Perms(Names)]

\* Schema{}: every field at its zero value.
EmptySchema ==
    [Type |-> "", Format |-> "", Properties |-> Nil, Items |-> Nil,
     Required |-> <<>>, Enum |-> <<>>, Example |-> Nil, Nullable |-> FALSE]

\* Schema{} as a struct in memory: a nil map and a nil pointer.
EmptySchemaH == [EmptySchema EXCEPT !.Properties = 0, !.Items = 0]

Leaf(t, e) == [EmptySchema EXCEPT !.Type = t, !.Enum = e]
Object(props, req) ==
    [EmptySchema EXCEPT !.Type = "object", !.Properties = props, !.Required = req]
Array(items) == [EmptySchema EXCEPT !.Type = "array", !.Items = items]

----------------------------------------------------------------------------
(* pkg/parser/schema_merger.go *)

\* A version of mergeRequired that keeps the names both lists hold.
mergeRequiredIntersect(a, b, it) == OrderBy(it.names, Range(a) \cap Range(b))

\* mergeRequired: the union of two required lists, in map iteration order.
mergeRequired(a, b, it) ==
    IF Len(a) = 0 THEN b
    ELSE IF Len(b) = 0 THEN a
    ELSE OrderBy(it.names, Range(a) \cup Range(b))

\* A version of mergeEnums that keeps only the first list's values.
mergeEnumsFirstOnly(a, b, it) ==
    IF Len(a) = 0 THEN b ELSE OrderBy(it.enum, Range(a))

\* mergeEnums: the union of two enum lists, in map iteration order; when one
\* list is empty the other is returned as it is.
mergeEnums(a, b, it) ==
    IF Len(a) = 0 THEN b
    ELSE IF Len(b) = 0 THEN a
    ELSE OrderBy(it.enum, Range(a) \cup Range(b))

\* The type rule of mergeSchema with an empty first type giving way to b's.
mergeTypeAdoptSecond(a, b) ==
    IF a.Type = "" THEN b.Type
    ELSE IF a.Type # b.Type /\ b.Type # "" THEN "object" ELSE a.Type

\* The type rule of mergeSchema with the escalation left out.
mergeTypeKeepFirst(a, b) == a.Type

\* mergeSchema, type rule: two different non-empty types escalate to object.
mergeType(a, b) ==
    IF a.Type # b.Type /\ a.Type # "" /\ b.Type # "" THEN "object" ELSE a.Type

\* The format rule of mergeSchema with the last non-empty format winning.
mergeFormatLastWins(a, b) == IF b.Format # "" THEN b.Format ELSE a.Format

\* mergeSchema, format rule: a's format, b's when a has none.
mergeFormat(a, b) == IF a.Format = "" /\ b.Format # "" THEN b.Format ELSE a.Format

\* The nullable rule of mergeSchema with "and" for "or".
mergeNullableBoth(a, b) == a.Nullable /\ b.Nullable

\* mergeSchema, nullable rule: nullable when either schema is.
mergeNullable(a, b) == a.Nullable \/ b.Nullable

\* The items rule of mergeSchema with a's items always kept.
mergeItemsKeepA(a, b, it) == a.Items

\* A version of mergeObjectProperties in which a key of both maps keeps a's
\* schema.
mergeObjectPropertiesKeepA(aProps, bProps, it) ==
    IF aProps = Nil /\ bProps = Nil THEN Nil
    ELSE
        LET am == IF aProps = Nil THEN EmptyMap ELSE aProps[1]
            bm == IF bProps = Nil THEN EmptyMap ELSE bProps[1]
        IN  Some([n \in (DOMAIN am) \cup (DOMAIN bm) |->
                    IF n \in DOMAIN am THEN am[n] ELSE bm[n]])

RECURSIVE mergeSchema(_, _, _)
RECURSIVE mergeObjectProperties(_, _, _)
RECURSIVE mergeItems(_, _, _)

\* mergeObjectProperties: union of the two property maps; a key of both is
\* merged recursively. Two nil maps give nil.
mergeObjectProperties(aProps, bProps, it) ==
    IF aProps = Nil /\ bProps = Nil THEN Nil
    ELSE
        LET am == IF aProps = Nil THEN EmptyMap ELSE aProps[1]
            bm == IF bProps = Nil THEN EmptyMap ELSE bProps[1]
        IN  Some([n \in (DOMAIN am) \cup (DOMAIN bm) |->
                    IF n \in DOMAIN am /\ n \in DOMAIN bm
                    THEN mergeSchema(am[n], bm[n], it)
                    ELSE IF n \in DOMAIN am THEN am[n] ELSE bm[n]])

\* mergeSchema, items rule for two arrays: merged when both have items,
\* b's when only b has them, else a's.
mergeItems(a, b, it) ==
    IF a.Items # Nil /\ b.Items # Nil
    THEN Some(mergeSchema(a.Items[1], b.Items[1], it))
    ELSE IF a.Items = Nil /\ b.Items # Nil THEN b.Items
    ELSE a.Items

\* mergeSchema: the pairwise merge, starting from a copy of a.
mergeSchema(a, b, it) ==
    LET r0 == [a EXCEPT !.Type = mergeType(a, b)]
        r1 == IF a.Type = "object"
              THEN [r0 EXCEPT
                      !.Properties = mergeObjectProperties(a.Properties, b.Properties, it),
                      !.Required = mergeRequired(a.Required, b.Required, it)]
              ELSE IF a.Type = "array" /\ b.Type = "array"
              THEN [r0 EXCEPT !.Items = mergeItems(a, b, it)]
              ELSE r0
        r2 == IF a.Example = Nil /\ b.Example # Nil
              THEN [r1 EXCEPT !.Example = b.Example] ELSE r1
        r3 == [r2 EXCEPT !.Enum = mergeEnums(a.Enum, b.Enum, it)]
        r4 == [r3 EXCEPT !.Format = mergeFormat(a, b)]
    IN  [r4 EXCEPT !.Nullable = mergeNullable(a, b)]

\* MergeRequestBody, content loop for one body: a content type already in
\* the result has its schema merged into the body's media type; a new one is
\* added.
MergeContent(content, body, it) ==
    [ct \in (DOMAIN content) \cup (DOMAIN body.Content) |->
        IF ct \in DOMAIN body.Content
        THEN IF ct \in DOMAIN content
             THEN [body.Content[ct] EXCEPT
                     !.Schema = mergeSchema(content[ct].Schema, @, it)]
             ELSE body.Content[ct]
        ELSE content[ct]]

RECURSIVE MergeContents(_, _, _)
\* for _, body := range bodies { ... }
MergeContents(content, bodies, it) ==
    IF bodies = <<>> THEN content
    ELSE MergeContents(MergeContent(content, Head(bodies), it), Tail(bodies), it)

\* MergeRequestBody: nil for no bodies, the body itself for one, else a new
\* body whose Required is computed from the first two bodies.
MergeRequestBody(bodies, it) ==
    IF Len(bodies) = 0 THEN Nil
    ELSE IF Len(bodies) = 1 THEN Some(bodies[1])
    ELSE Some([Description |-> bodies[1].Description,
               Required |-> bodies[1].Required \/ bodies[2].Required,
               Content |-> MergeContents(EmptyMap, bodies, it)])

\* A key that leaves the method out.
KeyPathOnly(path, method) == path

\* A key that leaves the path out.
KeyMethodOnly(path, method) == method

\* key := path + ":" + method
Key(path, method) == path \o <<":">> \o method

RECURSIVE MergeLoop(_, _, _)
\* for _, schema := range rest { result = mergeSchema(result, schema) }
MergeLoop(result, rest, it) ==
    IF rest = <<>> THEN result
    ELSE MergeLoop(mergeSchema(result, Head(rest), it), Tail(rest), it)

\* A version of MergeSchemas that folds every bucket from the empty schema.
MergeSchemasFromEmpty(m, path, method, it) ==
    LET key == Key(path, method) IN
    IF key \notin DOMAIN m THEN EmptySchema
    ELSE MergeLoop(EmptySchema, m[key], it)

\* MergeSchemas on the bucket map m.
MergeSchemasOf(m, path, method, it) ==
    LET key == Key(path, method) IN
    IF key \notin DOMAIN m \/ Len(m[key]) = 0 THEN EmptySchema
    ELSE IF Len(m[key]) = 1 THEN m[key][1]
    ELSE MergeLoop(m[key][1], Tail(m[key]), it)

\* AddSchema on the bucket map m: m[key] = append(m[key], schema).
AddSchemaTo(m, path, method, schema) ==
    LET key == Key(path, method) IN
    IF key \in DOMAIN m
    THEN [m EXCEPT ![key] = Append(@, schema)]
    ELSE [k \in (DOMAIN m) \cup {key} |-> IF k = key THEN <<schema>> ELSE m[k]]

----------------------------------------------------------------------------
(* Inputs of the merger *)

EnumLists == SeqsUpTo(EnumVals, MaxEnumLen)
LeafTypes == {"", "string", "integer"}

IdInt == [n \in {"id"} |-> Leaf("integer", <<>>)]
NameStr == [n \in {"name"} |-> Leaf("string", <<"red">>)]
IdNameStr ==
    [n \in {"id", "name"} |->
        IF n = "id" THEN Leaf("string", <<>>) ELSE Leaf("string", <<"green">>)]

ObjectPool ==
    {Object(Nil, <<>>), Object(Some(EmptyMap), <<>>),
     Object(Some(IdInt), <<"id">>), Object(Some(NameStr), <<"name">>),
     Object(Some(IdNameStr), <<"name", "id">>)}

ArrayPool ==
    {Array(Nil), Array(Some(Leaf("string", <<>>))),
     Array(Some(Leaf("integer", <<"red">>)))}

ExtraLeaves ==
    {[Leaf("string", <<>>) EXCEPT !.Format = "uuid"],
     [Leaf("string", <<"red">>) EXCEPT !.Nullable = TRUE],
     [Leaf("integer", <<>>) EXCEPT !.Example = Some("red"), !.Format = "int64"]}

\* The schemas handed to a direct mergeSchema evaluation.
PairPool ==
    {Leaf(t, e) : t \in LeafTypes, e \in EnumLists}
        \cup ExtraLeaves \cup ObjectPool \cup ArrayPool

\* The schemas handed to AddSchema.
SchemaPool ==
    {EmptySchema,
     [Leaf("string", <<"red">>) EXCEPT !.Format = "uuid"],
     Object(Some(IdInt), <<"id">>)}

\* The request bodies handed to MergeRequestBody.
ContentPool ==
    {EmptyMap,
     [ct \in {"application/json"} |-> [Schema |-> Object(Some(IdInt), <<"id">>)]],
     [ct \in {"application/json", "application/xml"} |->
        [Schema |-> IF ct = "application/json"
                    THEN Object(Some(NameStr), <<"name">>)
                    ELSE Leaf("string", <<>>)]]}

BodyPool == [Description : {"body"}, Required : BOOLEAN, Content : ContentPool]

\* Paths and methods as token sequences; a path may itself hold a colon, as
\* the response bucket's path (path + ":response") does.
Paths == {<<"/u">>, <<"/u", ":", "response">>}
Methods == {<<"GET">>, <<"POST">>}

----------------------------------------------------------------------------
(* Actions of the merger *)

AddSchema(path, method, schema) ==
    /\ Len(calls) < MaxAdds
    /\ schemas' = AddSchemaTo(schemas, path, method, schema)
    /\ calls' = Append(calls, [path |-> path, method |-> method, schema |-> schema])
    /\ merged' = Nil
    /\ UNCHANGED <<heapVars, genVars, pair, bodyVars, inferVars, strRun>>

MergeSchemas(path, method) ==
    /\ \E it \in Iters :
          merged' = Some([path |-> path, method |-> method,
                          result |-> MergeSchemasOf(schemas, path, method, it)])
    /\ UNCHANGED <<heapVars, genVars, schemas, calls, pair, bodyVars, inferVars, strRun>>

\* A direct evaluation of mergeSchema on the drawn inputs, in both argument
\* orders.
MergePair ==
    /\ pair # Nil
    /\ pair[1].ab = Nil
    /\ \E it1 \in Iters, it2 \in Iters :
          pair' = Some([pair[1] EXCEPT
                          !.ab = Some(mergeSchema(pair[1].a, pair[1].b, it1)),
                          !.ba = Some(mergeSchema(pair[1].b, pair[1].a, it2))])
    /\ UNCHANGED <<heapVars, genVars, mergerVars, bodyVars, inferVars, strRun>>

\* A direct call of MergeRequestBody on the drawn argument list.
MergeBodies ==
    /\ mergedBody = Nil
    /\ \E it \in Iters : mergedBody' = Some(MergeRequestBody(reqBodies, it))
    /\ UNCHANGED <<heapVars, genVars, mergerVars, pair, reqBodies, inferVars, strRun>>

\* NewSchemaMerger: no bucket yet.
MergerIdle ==
    /\ schemas = EmptyMap
    /\ calls = <<>>
    /\ merged = Nil

\* No direct evaluation of mergeSchema or MergeRequestBody under way.
PairIdle == pair = Nil
BodyIdle == reqBodies = <<>> /\ mergedBody = Nil

\* No TypeInferrer in use.
InferIdle ==
    /\ maxSamplesArg = 0
    /\ maxSamples = 0
    /\ samples = EmptyMap
    /\ nullFed = {}
    /\ feed = {}
    /\ lastOp = Nil
    /\ strRun = Nil

\* No schema was stored in the heap and no call made on it.
HeapIdle == heap = <<>> /\ frame = Nil
\* No OpenAPIGenerator was made.
GenIdle == transactions = <<>> /\ generated = Nil

Init == MergerIdle /\ PairIdle /\ BodyIdle /\ InferIdle /\ HeapIdle /\ GenIdle

Next ==
    \/ \E p \in Paths, m \in Methods, s \in SchemaPool : AddSchema(p, m, s)
    \/ \E p \in Paths, m \in Methods : MergeSchemas(p, m)

\* The SchemaMerger: AddSchema and MergeSchemas in any order.
Spec == Init /\ [][Next]_vars

InitPair ==
    /\ \E a \in PairPool, b \in PairPool :
          pair = Some([a |-> a, b |-> b, ab |-> Nil, ba |-> Nil])
    /\ MergerIdle /\ BodyIdle /\ InferIdle /\ HeapIdle /\ GenIdle

NextPair == MergePair

\* Direct evaluations of the pairwise merge on every pair of pool schemas.
SpecPair == InitPair /\ [][NextPair]_vars

InitBody ==
    /\ reqBodies \in SeqsUpTo(BodyPool, MaxBodies)
    /\ mergedBody = Nil
    /\ MergerIdle /\ PairIdle /\ InferIdle /\ HeapIdle /\ GenIdle

NextBody == MergeBodies

\* Direct calls of MergeRequestBody on every short list of pool bodies.
SpecBody == InitBody /\ [][NextBody]_vars

\* The schemas added to the bucket of a direct MergeSchemas call: objects
\* with different required lists, and strings with different formats and
\* nullability.
FoldPool ==
    {Object(Some(NameStr), <<>>),
     Object(Some(IdInt), <<"id">>),
     Object(Some(IdNameStr), <<"name">>),
     Leaf("string", <<>>),
     [Leaf("string", <<>>) EXCEPT !.Format = "uuid"],
     [Leaf("string", <<>>) EXCEPT !.Format = "date", !.Nullable = TRUE],
     [Leaf("integer", <<>>) EXCEPT !.Nullable = TRUE]}

FoldPath == <<"/u">>
FoldMethod == <<"GET">>

RECURSIVE AddAll(_, _)
\* The bucket map after the AddSchema calls of log, made in order.
AddAll(m, log) ==
    IF log = <<>> THEN m
    ELSE AddAll(AddSchemaTo(m, Head(log).path, Head(log).method, Head(log).schema),
                Tail(log))

\* A SchemaMerger after up to MaxFold AddSchema calls for one key.
InitFold ==
    /\ \E ss \in SeqsUpTo(FoldPool, MaxFold) :
          /\ calls = [i \in 1..Len(ss) |->
                        [path |-> FoldPath, method |-> FoldMethod, schema |-> ss[i]]]
          /\ schemas = AddAll(EmptyMap, calls)
    /\ merged = Nil
    /\ PairIdle /\ BodyIdle /\ InferIdle /\ HeapIdle /\ GenIdle

\* MergeSchemas on a merger prepared by InitFold.
FoldMerge ==
    /\ pair = Nil
    /\ \E p \in Paths, m \in Methods : MergeSchemas(p, m)

NextFold == MergePair \/ FoldMerge

\* The pairwise merge on every pair of pool schemas, and MergeSchemas on
\* every short bucket of pool schemas.
SpecFold == (InitPair \/ InitFold) /\ [][NextFold]_vars

----------------------------------------------------------------------------
(* Repeated evaluations of the merge, and AreSchemasEqual *)

RECURSIVE AreSchemasEqual(_, _)
\* AreSchemasEqual: type, format and nullable, the properties of two
\* objects by key, the items of two arrays, and the enum lists element by
\* element (reflect.DeepEqual on the slices).
AreSchemasEqual(a, b) ==
    IF a.Type # b.Type \/ a.Format # b.Format \/ a.Nullable # b.Nullable
    THEN FALSE
    ELSE
        LET aProps == IF a.Properties = Nil THEN EmptyMap ELSE a.Properties[1]
            bProps == IF b.Properties = Nil THEN EmptyMap ELSE b.Properties[1]
        IN  /\ (a.Type = "object" /\ b.Type = "object") =>
                /\ Cardinality(DOMAIN aProps) = Cardinality(DOMAIN bProps)
                /\ \A name \in DOMAIN aProps :
                      /\ name \in DOMAIN bProps
                      /\ AreSchemasEqual(aProps[name], bProps[name])
            /\ (a.Type = "array" /\ b.Type = "array") =>
                /\ (a.Items = Nil) = (b.Items = Nil)
                /\ (a.Items # Nil /\ b.Items # Nil) =>
                      AreSchemasEqual(a.Items[1], b.Items[1])
            /\ a.Enum = b.Enum

\* mergeSchema evaluated once more on the inputs of the last evaluation.
MergePairAgain ==
    /\ pair # Nil
    /\ pair[1].ab # Nil
    /\ \E it \in Iters :
          pair' = Some([pair[1] EXCEPT
                          !.ab = Some(mergeSchema(pair[1].a, pair[1].b, it))])
    /\ UNCHANGED <<heapVars, genVars, mergerVars, bodyVars, inferVars, strRun>>

NextAgain == MergePair \/ MergePairAgain \/ FoldMerge

\* The pairwise merge and MergeSchemas, each evaluated again and again on
\* the same inputs.
SpecAgain == (InitPair \/ InitFold) /\ [][NextAgain]_vars

----------------------------------------------------------------------------
(* MergeSchemas on buckets that may start with an untyped schema *)

PlaceholderPool ==
    {EmptySchema, Leaf("string", <<>>), Leaf("integer", <<>>),
     Object(Some(IdInt), <<"id">>)}

\* A SchemaMerger after up to MaxFold AddSchema calls for one key, some of
\* them with a schema whose type is empty.
InitPlaceholder ==
    /\ \E ss \in SeqsUpTo(PlaceholderPool, MaxFold) :
          /\ calls = [i \in 1..Len(ss) |->
                        [path |-> FoldPath, method |-> FoldMethod, schema |-> ss[i]]]
          /\ schemas = AddAll(EmptyMap, calls)
    /\ merged = Nil
    /\ PairIdle /\ BodyIdle /\ InferIdle /\ HeapIdle /\ GenIdle

\* The pairwise merge on every pair of pool schemas, and MergeSchemas on
\* every short bucket of typed and untyped schemas.
SpecPlaceholder == (InitPair \/ InitPlaceholder) /\ [][NextFold]_vars

----------------------------------------------------------------------------
(* Schemas in memory.  A Schema struct holds its Properties map and its     *)
(* Items pointer by reference: copying the struct (result := a) copies the *)
(* references, and a write through one copy's map is seen through the      *)
(* other.  The heap is the sequence of the maps (props) and pointed-to     *)
(* schemas (schema) allocated so far; an address is an index into it, and  *)
(* NilAddr is the nil map and the nil pointer.  In a struct held this way  *)
(* the fields Properties and Items are addresses.                          *)

NilAddr == 0

\* m[k] = v on a map's contents.
MapPut(m, k, v) == [x \in (DOMAIN m) \cup {k} |-> IF x = k THEN v ELSE m[x]]

RECURSIVE Store(_, _)
RECURSIVE StoreProps(_, _, _, _)

\* The struct and the fresh cells that hold the schema value s.
Store(h, s) ==
    LET p == IF s.Properties = Nil THEN [heap |-> h, addr |-> NilAddr]
             ELSE StoreProps(h, s.Properties[1], DOMAIN s.Properties[1], EmptyMap)
        i == IF s.Items = Nil THEN [heap |-> p.heap, addr |-> NilAddr]
             ELSE LET r == Store(p.heap, s.Items[1])
                  IN  [heap |-> Append(r.heap, [schema |-> r.schema]),
                       addr |-> Len(r.heap) + 1]
    IN  [heap |-> i.heap,
         schema |-> [s EXCEPT !.Properties = p.addr, !.Items = i.addr]]

\* A fresh map holding the properties m.
StoreProps(h, m, todo, acc) ==
    IF todo = {} THEN [heap |-> Append(h, [props |-> acc]), addr |-> Len(h) + 1]
    ELSE LET n == CHOOSE x \in todo : TRUE
             r == Store(h, m[n])
         IN  StoreProps(r.heap, m, todo \ {n}, MapPut(acc, n, r.schema))

RECURSIVE Load(_, _)
\* The schema value a struct stands for in heap h.
Load(h, s) ==
    [s EXCEPT
        !.Properties =
            IF s.Properties = NilAddr THEN Nil
            ELSE Some([n \in DOMAIN h[s.Properties].props |->
                          Load(h, h[s.Properties].props[n])]),
        !.Items =
            IF s.Items = NilAddr THEN Nil
            ELSE Some(Load(h, h[s.Items].schema))]

RECURSIVE mergeSchemaH(_, _, _, _)
RECURSIVE mergeObjectPropertiesH(_, _, _, _)
RECURSIVE MergeInto(_, _, _, _, _)

\* mergeObjectProperties, the loop over bProps: result[name] is written for
\* every name of bProps.
MergeInto(h, result, bProps, todo, it) ==
    IF todo = {} THEN h
    ELSE LET name == CHOOSE x \in todo : TRUE
             schema == h[bProps].props[name]
             r == IF name \in DOMAIN h[result].props
                  THEN mergeSchemaH(h, h[result].props[name], schema, it)
                  ELSE [heap |-> h, schema |-> schema]
         IN  MergeInto([r.heap EXCEPT ![result].props = MapPut(@, name, r.schema)],
                       result, bProps, todo \ {name}, it)

\* A version of mergeObjectProperties that merges bProps into aProps itself.
mergeObjectPropertiesInPlace(h, aProps, bProps, it) ==
    IF aProps = NilAddr /\ bProps = NilAddr THEN [heap |-> h, addr |-> NilAddr]
    ELSE IF aProps = NilAddr
    THEN [heap |-> MergeInto(Append(h, [props |-> EmptyMap]), Len(h) + 1, bProps,
                             DOMAIN h[bProps].props, it),
          addr |-> Len(h) + 1]
    ELSE [heap |-> IF bProps # NilAddr
                   THEN MergeInto(h, aProps, bProps, DOMAIN h[bProps].props, it)
                   ELSE h,
          addr |-> aProps]

\* mergeObjectProperties: nil for two nil maps; else a new map, filled with
\* the entries of aProps and then with those of bProps.
mergeObjectPropertiesH(h, aProps, bProps, it) ==
    IF aProps = NilAddr /\ bProps = NilAddr THEN [heap |-> h, addr |-> NilAddr]
    ELSE
        LET result == Len(h) + 1
            h1 == Append(h, [props |-> IF aProps # NilAddr
                                       THEN h[aProps].props ELSE EmptyMap])
        IN  [heap |-> IF bProps # NilAddr
                      THEN MergeInto(h1, result, bProps, DOMAIN h1[bProps].props, it)
                      ELSE h1,
             addr |-> result]

\* mergeSchema on structs: result := a copies a's references; the merged
\* properties and the merged items are new allocations, and b's items are
\* shared when a has none.
mergeSchemaH(h, a, b, it) ==
    LET r0 == [a EXCEPT !.Type = mergeType(a, b)]
        p == IF a.Type = "object"
             THEN mergeObjectPropertiesH(h, a.Properties, b.Properties, it)
             ELSE [heap |-> h, addr |-> a.Properties]
        r1 == IF a.Type = "object"
              THEN [r0 EXCEPT !.Properties = p.addr,
                              !.Required = mergeRequired(a.Required, b.Required, it)]
              ELSE r0
        i == IF a.Type = "array" /\ b.Type = "array"
                  /\ a.Items # NilAddr /\ b.Items # NilAddr
             THEN LET m == mergeSchemaH(p.heap, p.heap[a.Items].schema,
                                        p.heap[b.Items].schema, it)
                  IN  [heap |-> Append(m.heap, [schema |-> m.schema]),
                       addr |-> Len(m.heap) + 1]
             ELSE IF a.Type = "array" /\ b.Type = "array"
                  /\ a.Items = NilAddr /\ b.Items # NilAddr
             THEN [heap |-> p.heap, addr |-> b.Items]
             ELSE [heap |-> p.heap, addr |-> a.Items]
        r2 == [r1 EXCEPT !.Items = i.addr]
        r3 == IF a.Example = Nil /\ b.Example # Nil
              THEN [r2 EXCEPT !.Example = b.Example] ELSE r2
        r4 == [r3 EXCEPT !.Enum = mergeEnums(a.Enum, b.Enum, it)]
        r5 == [r4 EXCEPT !.Format = mergeFormat(a, b)]
    IN  [heap |-> i.heap, schema |-> [r5 EXCEPT !.Nullable = mergeNullable(a, b)]]

RECURSIVE MergeLoopH(_, _, _, _)
\* for _, schema := range rest { result = mergeSchema(result, schema) }
MergeLoopH(h, result, rest, it) ==
    IF rest = <<>> THEN [heap |-> h, schema |-> result]
    ELSE LET r == mergeSchemaH(h, result, Head(rest), it)
         IN  MergeLoopH(r.heap, r.schema, Tail(rest), it)

\* MergeSchemas on the bucket map m of structs.
MergeSchemasH(h, m, path, method, it) ==
    LET key == Key(path, method) IN
    IF key \notin DOMAIN m \/ Len(m[key]) = 0 THEN [heap |-> h, schema |-> EmptySchemaH]
    ELSE IF Len(m[key]) = 1 THEN [heap |-> h, schema |-> m[key][1]]
    ELSE MergeLoopH(h, m[key][1], Tail(m[key]), it)

\* The schemas added to a merger whose schemas are held in the heap: objects
\* with common and different keys, one nested in another, and arrays.
NestedName == [n \in {"id"} |-> Object(Some(NameStr), <<"name">>)]
NestedId == [n \in {"id"} |-> Object(Some(IdInt), <<>>)]
HeapPool ==
    {Object(Some(NameStr), <<"name">>),
     Object(Some(IdNameStr), <<"id">>),
     Object(Some(NestedName), <<>>),
     Object(Some(NestedId), <<"id">>),
     Array(Some(Leaf("string", <<"red">>))),
     Array(Some(Leaf("string", <<"green">>)))}

RECURSIVE StoreAll(_, _, _, _)
\* The structs of the schema values ss, stored one after the other; with
\* share, a value that occurs again is the same struct again (the caller
\* added one schema twice).
StoreAll(h, ss, acc, share) ==
    IF Len(acc) = Len(ss) THEN [heap |-> h, structs |-> acc]
    ELSE LET s == ss[Len(acc) + 1]
             seen == {j \in 1..Len(acc) : ss[j] = s}
         IN  IF share /\ seen # {}
             THEN StoreAll(h, ss, Append(acc, acc[CHOOSE j \in seen : TRUE]), share)
             ELSE LET r == Store(h, s)
                  IN  StoreAll(r.heap, ss, Append(acc, r.schema), share)

\* A SchemaMerger after up to MaxHeapAdds AddSchema calls for one key.
InitHeap ==
    /\ \E ss \in SeqsUpTo(HeapPool, MaxHeapAdds), share \in BOOLEAN :
          LET r == StoreAll(<<>>, ss, <<>>, share) IN
          /\ Len(ss) >= 1
          /\ calls = [i \in 1..Len(ss) |->
                        [path |-> FoldPath, method |-> FoldMethod, schema |-> ss[i]]]
          /\ schemas = [k \in {Key(FoldPath, FoldMethod)} |-> r.structs]
          /\ heap = r.heap
    /\ merged = Nil
    /\ frame = Nil
    /\ PairIdle /\ BodyIdle /\ InferIdle /\ GenIdle

\* The call recorded in frame was the first one on this merger.
FirstCall == frame = Nil

\* MergeSchemas(path, method) on the merger, a first or a second time.
HeapMergeSchemas(path, method) ==
    /\ IF frame = Nil THEN TRUE ELSE frame[1].first
    /\ \E it \in Iters :
          LET r == MergeSchemasH(heap, schemas, path, method, it) IN
          /\ heap' = r.heap
          /\ frame' = Some([fn |-> "MergeSchemas", first |-> FirstCall,
                            a |-> Nil, b |-> Nil,
                            before |-> heap, result |-> r.schema])
    /\ UNCHANGED <<mergerVars, pair, bodyVars, inferVars, strRun, genVars>>

\* mergeSchema(a, b) on two schemas of the bucket.
HeapMergePair(path, method) ==
    /\ frame = Nil
    /\ \E i, j \in 1..Len(schemas[Key(path, method)]), it \in Iters :
          LET a == schemas[Key(path, method)][i]
              b == schemas[Key(path, method)][j]
              r == mergeSchemaH(heap, a, b, it)
          IN  /\ heap' = r.heap
              /\ frame' = Some([fn |-> "mergeSchema", first |-> TRUE,
                                a |-> Some(a), b |-> Some(b),
                                before |-> heap, result |-> r.schema])
    /\ UNCHANGED <<mergerVars, pair, bodyVars, inferVars, strRun, genVars>>

NextHeap ==
    \/ HeapMergeSchemas(FoldPath, FoldMethod)
    \/ HeapMergePair(FoldPath, FoldMethod)

\* mergeSchema and MergeSchemas on schemas held in the heap.
SpecHeap == InitHeap /\ [][NextHeap]_vars

----------------------------------------------------------------------------
(* Claims about the merger *)

\* The AddSchema calls made for (path, method), in call order.
SubLog(path, method) ==
    SelectSeq(calls, LAMBDA c : c.path = path /\ c.method = method)

SchemasOf(log) == [i \in 1..Len(log) |-> log[i].schema]

RECURSIVE NestedMerge(_, _)
\* merge(...merge(merge(s1, s2), s3)..., sn) for n >= 1.
NestedMerge(ss, it) ==
    IF Len(ss) = 1 THEN ss[1]
    ELSE mergeSchema(NestedMerge(SubSeq(ss, 1, Len(ss) - 1), it), ss[Len(ss)], it)

\* C1: every bucket holds exactly the schemas added for its (path, method),
\* in call order and with repeats kept, and MergeSchemas on a key that
\* received n >= 2 schemas returns merge(...merge(merge(s1,s2),s3)...,sn);
\* calls for other keys do not influence either.
C1_LeftFoldInCallOrder ==
    /\ \A p \in Paths, m \in Methods :
          LET ss == SchemasOf(SubLog(p, m)) IN
          IF ss = <<>> THEN Key(p, m) \notin DOMAIN schemas
          ELSE Key(p, m) \in DOMAIN schemas /\ schemas[Key(p, m)] = ss
    /\ merged # Nil =>
          LET ss == SchemasOf(SubLog(merged[1].path, merged[1].method)) IN
          Len(ss) >= 2 => \E it \in Iters : merged[1].result = NestedMerge(ss, it)

\* C1 witness: MergeSchemas returned for a key that received the same schema
\* twice, with a call for the same path under another method in between.
C1_Witness ==
    /\ merged # Nil
    /\ Len(calls) = 3
    /\ calls[1].path = merged[1].path /\ calls[1].method = merged[1].method
    /\ calls[2].path = merged[1].path /\ calls[2].method # merged[1].method
    /\ calls[3].path = merged[1].path /\ calls[3].method = merged[1].method
    /\ calls[1].schema = calls[3].schema
    /\ calls[2].schema # calls[1].schema
    /\ merged[1].result.Type = "object"

PairDone == pair # Nil /\ pair[1].ab # Nil

\* C2: for schemas a, b whose types are both non-empty and different,
\* merge(a,b).type is "object", in either argument order.
C2_TypeConflictEscalates ==
    PairDone =>
        LET a == pair[1].a
            b == pair[1].b
        IN  (a.Type # "" /\ b.Type # "" /\ a.Type # b.Type) =>
                /\ pair[1].ab[1].Type = "object"
                /\ pair[1].ba[1].Type = "object"

\* C2 witness: a string schema and an integer schema were merged.
C2_Witness ==
    /\ PairDone
    /\ pair[1].a.Type = "string"
    /\ pair[1].b.Type = "integer"
    /\ pair[1].ab[1].Type = "object"

RECURSIVE WellFormed(_)
\* The data-model invariant on a schema tree: an object has a non-nil
\* properties map.
WellFormed(s) ==
    /\ s.Type = "object" => s.Properties # Nil
    /\ s.Properties # Nil =>
          \A n \in DOMAIN s.Properties[1] : WellFormed(s.Properties[1][n])
    /\ s.Items # Nil => WellFormed(s.Items[1])

\* C3: merge(a,b) of two schemas that satisfy the data-model invariant
\* satisfies it: a result of type object has a non-nil properties map.
C3_MergeKeepsObjectInvariant ==
    (PairDone /\ WellFormed(pair[1].a) /\ WellFormed(pair[1].b)) =>
        (pair[1].ab[1].Type = "object" => pair[1].ab[1].Properties # Nil)

NoRepeats(s) == \A i, j \in 1..Len(s) : s[i] = s[j] => i = j

\* C4: the enum of merge(a,b) holds each distinct value of a.enum and b.enum
\* exactly once, also when one of the two lists is empty.
C4_MergedEnumHasNoRepeats ==
    PairDone =>
        /\ NoRepeats(pair[1].ab[1].Enum)
        /\ Range(pair[1].ab[1].Enum) = Range(pair[1].a.Enum) \cup Range(pair[1].b.Enum)

\* C5: the set of values of merge(a,b).enum is the union of the sets of
\* a.enum and b.enum, and merge(a,b).enum and merge(b,a).enum hold the same
\* set of values.
C5_EnumUnionCommutes ==
    PairDone =>
        /\ Range(pair[1].ab[1].Enum) = Range(pair[1].a.Enum) \cup Range(pair[1].b.Enum)
        /\ Range(pair[1].ab[1].Enum) = Range(pair[1].ba[1].Enum)

\* C5 witness: two non-empty enum lists with different values were merged and
\* the two argument orders gave the values in different orders.
C5_Witness ==
    /\ PairDone
    /\ pair[1].a.Enum # <<>>
    /\ pair[1].b.Enum # <<>>
    /\ Range(pair[1].a.Enum) # Range(pair[1].b.Enum)
    /\ pair[1].ab[1].Enum # pair[1].ba[1].Enum
    /\ Len(pair[1].ab[1].Enum) = Cardinality(EnumVals)

\* C6: the body MergeRequestBody returns for a non-empty list is required
\* iff at least one body of the list is required.
C6_RequiredIsOrOfAll ==
    (mergedBody # Nil /\ Len(reqBodies) >= 1) =>
        /\ mergedBody[1] # Nil
        /\ mergedBody[1][1].Required = (\E i \in 1..Len(reqBodies) : reqBodies[i].Required)

----------------------------------------------------------------------------
(* Decoded JSON values (interface{} after json.Unmarshal)                  *)
(*   null, string, float64, bool, map[string]interface{}, []interface{}.   *)
(* A string is the character c repeated n times. A number is the float64   *)
(* h * 2^e / 2: h halves when e = 0, and a multiple of 2^(e-1) for the     *)
(* exponents 31 and 63, which reach the limits of 32- and 64-bit integers. *)

Null == [k |-> "null"]
Str(c, n) == [k |-> "str", c |-> c, n |-> n]
Scaled(h, e) == [k |-> "num", h |-> h, e |-> e]
Num(h) == Scaled(h, 0)
Bool(b) == [k |-> "bool", b |-> b]
Obj(m) == [k |-> "obj", m |-> m]
Arr(a) == [k |-> "arr", a |-> a]

\* len(s), in bytes.
StrLen(v) == v.n

Digits == {"0", "1", "2", "3", "4", "5", "6", "7", "8", "9"}

\* x < y on numbers. Exponents that differ do so by 31 or more and |h| is
\* below 2^31, so with different exponents the larger one decides.
ScaledLess(x, y) ==
    IF x.e = y.e THEN x.h < y.h
    ELSE IF x.e < y.e
    THEN IF y.h = 0 THEN x.h < 0 ELSE y.h > 0
    ELSE IF x.h = 0 THEN 0 < y.h ELSE x.h < 0

\* The builds of the program: the width of int, and what a conversion of an
\* out-of-range float64 to an integer gives (the smallest integer, or the
\* nearest one); the language leaves that result to the implementation.
Builds == [intBits : {32, 64}, overflow : {"min", "saturate"}]

\* The width of int64.
Int64Bits == 64

\* 2^(bits-1): the first float64 above the integers of that width.
Limit(bits) == Scaled(2, bits - 1)

\* The truncation of v is an integer of the given width.
FitsInt(v, bits) ==
    /\ ScaledLess(v, Limit(bits))
    /\ ~ScaledLess(v, Scaled(-2, bits - 1))

\* v == float64(intN(v)) for the integer type of the given width: within
\* range, whether v is integral; out of range the smallest integer never
\* converts back to v, and the largest does only for 64 bits, where it
\* rounds to 2^63.
EqualsItsInt(build, v, bits) ==
    IF FitsInt(v, bits) THEN v.e > 0 \/ v.h % 2 = 0
    ELSE build.overflow = "saturate" /\ bits = Int64Bits /\ v = Limit(Int64Bits)

\* v == float64(int64(v)) on numbers within the int64 range, for which
\* every build gives the same answer.
IsIntegral(v) == EqualsItsInt(CHOOSE b \in Builds : TRUE, v, Int64Bits)

----------------------------------------------------------------------------
(* Program constants of the TypeInferrer *)

\* NewTypeInferrer: the cap used when maxSamples <= 0.
DefaultMaxSamples == 10
\* inferType: a string shorter than this is kept as the example.
ExampleMaxLen == 50
\* enhanceStringSchema: sample counts for which an enum is considered.
EnumMinSamples == 2
EnumMaxSamples == 10
\* enhanceStringSchema: most distinct values an enum may have.
EnumMaxUnique == 5
\* enhanceStringSchema: a string longer than this is not short.
ShortStringMax == 30
\* enhanceNumberSchema: fewest samples for which the range is computed.
NumberMinSamples == 3
\* enhanceNumberSchema: largest maximum that still gives int32.
Int32RangeMax == 255

----------------------------------------------------------------------------
(* TypeInferrer: single values *)

\* inferStringFormat on the strings of the model: a repeated letter matches
\* no pattern and parses as nothing; a run of digits matches no pattern and
\* parses as a float.
inferStringFormat(v) == IF v.c \in Digits THEN "numeric" ELSE ""

RECURSIVE inferTypeOn(_, _)
\* inferType on a given build: the schema of one value.
inferTypeOn(build, value) ==
    CASE value.k = "obj" ->
            [EmptySchema EXCEPT
                !.Type = "object",
                !.Properties = Some([n \in DOMAIN value.m |->
                                        inferTypeOn(build, value.m[n])])]
      [] value.k = "arr" ->
            [EmptySchema EXCEPT
                !.Type = "array",
                !.Items = IF Len(value.a) > 0
                          THEN Some(inferTypeOn(build, value.a[1])) ELSE Nil]
      [] value.k = "str" ->
            [EmptySchema EXCEPT
                !.Type = "string",
                !.Format = inferStringFormat(value),
                !.Example = IF StrLen(value) < ExampleMaxLen THEN Some(value) ELSE Nil]
      [] value.k = "num" ->
            [EmptySchema EXCEPT
                !.Type = IF EqualsItsInt(build, value, Int64Bits)
                         THEN "integer" ELSE "number",
                !.Format = IF EqualsItsInt(build, value, Int64Bits)
                           THEN "int64" ELSE "double",
                !.Example = Some(value)]
      [] value.k = "bool" ->
            [EmptySchema EXCEPT !.Type = "boolean", !.Example = Some(value)]
      [] OTHER -> [EmptySchema EXCEPT !.Type = "null"]

\* inferType on the samples of a TypeInferrer, which are within the int64
\* range: the build does not show.
inferType(value) == inferTypeOn(CHOOSE b \in Builds : TRUE, value)

RECURSIVE inferSchema(_, _)
\* inferSchema of parser.go on a given build. The strings of the model parse
\* as no date-time.
inferSchema(build, value) ==
    CASE value.k = "null" ->
            [EmptySchema EXCEPT !.Type = "null", !.Nullable = TRUE]
      [] value.k = "bool" ->
            [EmptySchema EXCEPT !.Type = "boolean", !.Example = Some(value)]
      [] value.k = "num" ->
            IF EqualsItsInt(build, value, build.intBits)
            THEN [EmptySchema EXCEPT
                    !.Type = "integer", !.Format = "int64", !.Example = Some(value)]
            ELSE [EmptySchema EXCEPT
                    !.Type = "number", !.Format = "double", !.Example = Some(value)]
      [] value.k = "str" ->
            [EmptySchema EXCEPT !.Type = "string", !.Example = Some(value)]
      [] value.k = "arr" ->
            [EmptySchema EXCEPT
                !.Type = "array",
                !.Items = IF Len(value.a) = 0
                          THEN Some([EmptySchema EXCEPT !.Type = "string"])
                          ELSE Some(inferSchema(build, value.a[1]))]
      [] OTHER ->
            [EmptySchema EXCEPT
                !.Type = "object",
                !.Properties = Some([n \in DOMAIN value.m |->
                                        inferSchema(build, value.m[n])])]

\* sameType: every sample after the first infers the first one's type.
SameType(ss) ==
    \A i \in 2..Len(ss) : inferType(ss[i]).Type = inferType(ss[1]).Type

----------------------------------------------------------------------------
(* TypeInferrer: the sample collector *)

\* NewTypeInferrer: the cap for a given maxSamples argument.
NewMaxSamples(n) == IF n <= 0 THEN DefaultMaxSamples ELSE n

\* AddSample whose cap check is off by one.
AddSampleOverCap(smp, cap, path, value) ==
    IF value = Null THEN smp
    ELSE IF path \in DOMAIN smp /\ Len(smp[path]) > cap THEN smp
    ELSE IF path \in DOMAIN smp THEN [smp EXCEPT ![path] = Append(@, value)]
    ELSE [q \in (DOMAIN smp) \cup {path} |-> IF q = path THEN <<value>> ELSE smp[q]]

\* AddSample on the sample map smp: a null, or a value for a path that holds
\* cap samples, is dropped; anything else is appended.
AddSampleTo(smp, cap, path, value) ==
    IF value = Null THEN smp
    ELSE IF path \in DOMAIN smp /\ Len(smp[path]) >= cap THEN smp
    ELSE IF path \in DOMAIN smp THEN [smp EXCEPT ![path] = Append(@, value)]
    ELSE [q \in (DOMAIN smp) \cup {path} |-> IF q = path THEN <<value>> ELSE smp[q]]

\* t.samples[path]; a missing path reads as the nil slice.
SamplesAt(smp, path) == IF path \in DOMAIN smp THEN smp[path] ELSE <<>>

----------------------------------------------------------------------------
(* TypeInferrer: enhancement of a same-typed sample list *)

\* enhanceStringSchema with the length test of the enum rule made strict.
enhanceStringSchemaStrict(schema, ss, order) ==
    LET strSamples == SelectSeq(ss, LAMBDA v : v.k = "str")
        unique == Range(strSamples)
        allShort == \A i \in 1..Len(strSamples) :
                        StrLen(strSamples[i]) < ShortStringMax
        isEnum == /\ Len(ss) >= EnumMinSamples /\ Len(ss) <= EnumMaxSamples
                  /\ Cardinality(unique) <= EnumMaxUnique
                  /\ allShort
                  /\ Cardinality(unique) < Len(strSamples)
        s1 == IF isEnum THEN [schema EXCEPT !.Enum = OrderBy(order, unique)] ELSE schema
    IN  IF s1.Format = "" /\ Len(ss) > 0 /\ ss[1].k = "str"
        THEN [s1 EXCEPT !.Format = inferStringFormat(ss[1])]
        ELSE s1

\* enhanceStringSchema: the enum rule, then the format of the first sample.
\* The enum lists the distinct values in map iteration order.
enhanceStringSchema(schema, ss, order) ==
    LET strSamples == SelectSeq(ss, LAMBDA v : v.k = "str")
        unique == Range(strSamples)
        allShort == \A i \in 1..Len(strSamples) :
                        ~(StrLen(strSamples[i]) > ShortStringMax)
        isEnum == /\ Len(ss) >= EnumMinSamples /\ Len(ss) <= EnumMaxSamples
                  /\ Cardinality(unique) <= EnumMaxUnique
                  /\ allShort
                  /\ Cardinality(unique) < Len(strSamples)
        s1 == IF isEnum THEN [schema EXCEPT !.Enum = OrderBy(order, unique)] ELSE schema
    IN  IF s1.Format = "" /\ Len(ss) > 0 /\ ss[1].k = "str"
        THEN [s1 EXCEPT !.Format = inferStringFormat(ss[1])]
        ELSE s1

RECURSIVE NumRange(_, _)
\* The loop of enhanceNumberSchema over samples[1:], from the accumulator r.
NumRange(r, rest) ==
    IF rest = <<>> THEN r
    ELSE IF Head(rest).k = "num"
    THEN NumRange([min |-> IF ScaledLess(Head(rest), r.min) THEN Head(rest) ELSE r.min,
                   max |-> IF ScaledLess(r.max, Head(rest)) THEN Head(rest) ELSE r.max,
                   allIntegers |-> r.allIntegers /\ IsIntegral(Head(rest))],
                  Tail(rest))
    ELSE NumRange(r, Tail(rest))

\* enhanceNumberSchema with the int32 range ending below its last value.
enhanceNumberSchemaBelowMax(schema, ss) ==
    IF Len(ss) >= NumberMinSamples
    THEN LET r0 == IF ss[1].k = "num"
                   THEN [min |-> ss[1], max |-> ss[1],
                         allIntegers |-> IsIntegral(ss[1])]
                   ELSE [min |-> Num(0), max |-> Num(0), allIntegers |-> TRUE]
             r == NumRange(r0, Tail(ss))
         IN  IF r.allIntegers
             THEN [schema EXCEPT
                     !.Type = "integer",
                     !.Format = IF /\ ~ScaledLess(r.min, Num(0))
                                   /\ ScaledLess(r.max, Num(2 * Int32RangeMax))
                                THEN "int32" ELSE "int64"]
             ELSE [schema EXCEPT !.Type = "number", !.Format = "double"]
    ELSE schema

\* enhanceNumberSchema: with enough samples the type and format follow from
\* the range and from whether every sample is integral.
enhanceNumberSchema(schema, ss) ==
    IF Len(ss) >= NumberMinSamples
    THEN LET r0 == IF ss[1].k = "num"
                   THEN [min |-> ss[1], max |-> ss[1],
                         allIntegers |-> IsIntegral(ss[1])]
                   ELSE [min |-> Num(0), max |-> Num(0), allIntegers |-> TRUE]
             r == NumRange(r0, Tail(ss))
         IN  IF r.allIntegers
             THEN [schema EXCEPT
                     !.Type = "integer",
                     !.Format = IF /\ ~ScaledLess(r.min, Num(0))
                                   /\ ~ScaledLess(Num(2 * Int32RangeMax), r.max)
                                THEN "int32" ELSE "int64"]
             ELSE [schema EXCEPT !.Type = "number", !.Format = "double"]
    ELSE schema

RECURSIVE TakeItems(_, _, _)
\* The inner loop of enhanceArraySchema: append the items of one array,
\* leaving the loop once maxSamples items are held.
TakeItems(all, arr, cap) ==
    IF arr = <<>> THEN all
    ELSE IF Len(all) + 1 >= cap THEN Append(all, Head(arr))
    ELSE TakeItems(Append(all, Head(arr)), Tail(arr), cap)

RECURSIVE CollectItems(_, _, _)
\* The outer loop of enhanceArraySchema over the samples.
CollectItems(all, ss, cap) ==
    IF ss = <<>> THEN all
    ELSE IF Head(ss).k = "arr"
    THEN CollectItems(TakeItems(all, Head(ss).a, cap), Tail(ss), cap)
    ELSE CollectItems(all, Tail(ss), cap)

RECURSIVE enhanceSchema(_, _, _, _)

\* enhanceArraySchema: the items schema from the collected items.
enhanceArraySchema(schema, ss, cap, order) ==
    LET allItems == CollectItems(<<>>, ss, cap) IN
    IF Len(allItems) > 0
    THEN [schema EXCEPT !.Items =
            IF SameType(allItems)
            THEN Some(enhanceSchema(inferType(allItems[1]), allItems, cap, order))
            ELSE Some([inferType(allItems[1]) EXCEPT !.Type = "string", !.Format = "any"])]
    ELSE schema

\* enhanceSchema: dispatch on the schema's type.
enhanceSchema(schema, ss, cap, order) ==
    CASE schema.Type = "string" -> enhanceStringSchema(schema, ss, order)
      [] schema.Type \in {"integer", "number"} -> enhanceNumberSchema(schema, ss)
      [] schema.Type = "array" -> enhanceArraySchema(schema, ss, cap, order)
      [] OTHER -> schema

----------------------------------------------------------------------------
(* TypeInferrer: InferSchema.  The operators below thread the sample map   *)
(* through the calls, as the methods mutate t.samples: each returns the    *)
(* map it leaves behind next to its result.                                *)

\* propPath := path + "." + propName
PropPath(path, name) == path \o <<".", name>>
\* itemPath := path + "[]"
ItemPath(path) == path \o <<"[]">>

CountKind(ss, kind) == Cardinality({i \in 1..Len(ss) : ss[i].k = kind})

\* The choice of handleMixedTypes with integer chosen as soon as one of the
\* numbers is integral.
DominantSomeInteger(ss) ==
    LET numberCount == CountKind(ss, "num")
        intCount == Cardinality({i \in 1..Len(ss) : ss[i].k = "num" /\ IsIntegral(ss[i])})
        d0 == [max |-> 0, type |-> ""]
        d1 == IF CountKind(ss, "str") > d0.max
              THEN [max |-> CountKind(ss, "str"), type |-> "string"] ELSE d0
        d2 == IF numberCount > d1.max
              THEN [max |-> numberCount,
                    type |-> IF intCount > 0 THEN "integer" ELSE "number"]
              ELSE d1
        d3 == IF CountKind(ss, "bool") > d2.max
              THEN [max |-> CountKind(ss, "bool"), type |-> "boolean"] ELSE d2
        d4 == IF CountKind(ss, "obj") > d3.max
              THEN [max |-> CountKind(ss, "obj"), type |-> "object"] ELSE d3
    IN  IF CountKind(ss, "arr") > d4.max
        THEN [max |-> CountKind(ss, "arr"), type |-> "array"] ELSE d4

\* handleMixedTypes: the kind with the highest count, taken in the order
\* string, number, boolean, object, array, each replacing the choice only
\* when strictly higher.
Dominant(ss) ==
    LET numberCount == CountKind(ss, "num")
        intCount == Cardinality({i \in 1..Len(ss) : ss[i].k = "num" /\ IsIntegral(ss[i])})
        d0 == [max |-> 0, type |-> ""]
        d1 == IF CountKind(ss, "str") > d0.max
              THEN [max |-> CountKind(ss, "str"), type |-> "string"] ELSE d0
        d2 == IF numberCount > d1.max
              THEN [max |-> numberCount,
                    type |-> IF intCount = numberCount THEN "integer" ELSE "number"]
              ELSE d1
        d3 == IF CountKind(ss, "bool") > d2.max
              THEN [max |-> CountKind(ss, "bool"), type |-> "boolean"] ELSE d2
        d4 == IF CountKind(ss, "obj") > d3.max
              THEN [max |-> CountKind(ss, "obj"), type |-> "object"] ELSE d3
    IN  IF CountKind(ss, "arr") > d4.max
        THEN [max |-> CountKind(ss, "arr"), type |-> "array"] ELSE d4

\* The dominance test with the share allowed to equal the threshold.
ClearlyDominantAtLeast(maxCount, total) == 10 * maxCount >= 7 * total

\* float64(maxCount)/float64(total) > 0.7, which for counts this small is
\* the exact comparison 10 * maxCount > 7 * total.
ClearlyDominant(maxCount, total) == 10 * maxCount > 7 * total

RECURSIVE FirstFormat(_)
\* handleMixedTypes: the first non-empty format among the string samples.
FirstFormat(ss) ==
    IF ss = <<>> THEN ""
    ELSE IF Head(ss).k = "str" /\ inferStringFormat(Head(ss)) # ""
    THEN inferStringFormat(Head(ss))
    ELSE FirstFormat(Tail(ss))

RECURSIVE AddProps(_, _, _, _, _)
\* inferObjectProperties, inner loop: AddSample(path.name, value) for every
\* property of one object sample. The properties go to different paths, so
\* the map iteration order does not show.
AddProps(smp, cap, path, obj, todo) ==
    IF todo = {} THEN smp
    ELSE LET name == CHOOSE n \in todo : TRUE IN
         AddProps(AddSampleTo(smp, cap, PropPath(path, name), obj[name]),
                  cap, path, obj, todo \ {name})

RECURSIVE AddAllProps(_, _, _, _)
\* inferObjectProperties, first loop over the samples of the path.
AddAllProps(smp, cap, path, ss) ==
    IF ss = <<>> THEN smp
    ELSE IF Head(ss).k = "obj"
    THEN AddAllProps(AddProps(smp, cap, path, Head(ss).m, DOMAIN Head(ss).m),
                     cap, path, Tail(ss))
    ELSE AddAllProps(smp, cap, path, Tail(ss))

RECURSIVE AddItems(_, _, _, _)
\* inferArrayItems, inner loop: AddSample(path[], item) for every item.
AddItems(smp, cap, path, arr) ==
    IF arr = <<>> THEN smp
    ELSE AddItems(AddSampleTo(smp, cap, ItemPath(path), Head(arr)), cap, path, Tail(arr))

RECURSIVE AddAllItems(_, _, _, _)
\* inferArrayItems, loop over the samples of the path.
AddAllItems(smp, cap, path, ss) ==
    IF ss = <<>> THEN smp
    ELSE IF Head(ss).k = "arr"
    THEN AddAllItems(AddItems(smp, cap, path, Head(ss).a), cap, path, Tail(ss))
    ELSE AddAllItems(smp, cap, path, Tail(ss))

\* The property names that occur in the object samples (propCounts' keys).
PropNames(ss) == UNION {DOMAIN ss[i].m : i \in {j \in 1..Len(ss) : ss[j].k = "obj"}}

\* requiredProps[name]: the object samples that hold name with a non-null
\* value.
requiredPropsCount(ss, name) ==
    Cardinality({i \in 1..Len(ss) :
        ss[i].k = "obj" /\ name \in DOMAIN ss[i].m /\ ss[i].m[name] # Null})

\* propCounts[name]
PropCount(ss, name) ==
    Cardinality({i \in 1..Len(ss) : ss[i].k = "obj" /\ name \in DOMAIN ss[i].m})

RECURSIVE InferSchemaOf(_, _, _, _)
RECURSIVE InferProps(_, _, _, _, _, _)
RECURSIVE handleMixedTypes(_, _, _, _)

\* inferObjectProperties, last loop: InferSchema(path.name) for every
\* property name; a property with a schema is entered in the map, marked
\* nullable when some object sample lacks it. acc is the map built so far.
InferProps(smp, cap, path, todo, acc, order) ==
    IF todo = {} THEN [properties |-> acc, samples |-> smp]
    ELSE LET name == CHOOSE n \in todo : TRUE
             r == InferSchemaOf(smp, cap, PropPath(path, name), order)
             ss == SamplesAt(smp, path)
             propSchema ==
                 IF PropCount(ss, name) < CountKind(ss, "obj")
                 THEN [r.schema[1] EXCEPT !.Nullable = TRUE]
                 ELSE r.schema[1]
             acc2 == IF r.schema = Nil THEN acc
                     ELSE [n \in (DOMAIN acc) \cup {name} |->
                             IF n = name THEN propSchema ELSE acc[n]]
         IN  InferProps(r.samples, cap, path, todo \ {name}, acc2, order)

\* inferObjectProperties: feed the property values to their sub-paths, then
\* infer every property.
inferObjectProperties(smp, cap, path, order) ==
    LET ss == SamplesAt(smp, path)
        fed == AddAllProps(smp, cap, path, ss)
    IN  InferProps(fed, cap, path, PropNames(ss), EmptyMap, order)

\* inferArrayItems: feed every item to path[], then infer that path; nil
\* when the array samples hold no item.
inferArrayItems(smp, cap, path, order) ==
    LET ss == SamplesAt(smp, path)
        fed == AddAllItems(smp, cap, path, ss)
    IN  IF \A i \in 1..Len(ss) : ss[i].k = "arr" => Len(ss[i].a) = 0
        THEN [schema |-> Nil, samples |-> fed]
        ELSE InferSchemaOf(fed, cap, ItemPath(path), order)

\* handleMixedTypes: the schema for samples of different types.
handleMixedTypes(smp, cap, path, order) ==
    LET ss == SamplesAt(smp, path)
        total == Len(ss)
        nullCount == CountKind(ss, "null")
        d == Dominant(ss)
        base == [EmptySchema EXCEPT !.Nullable = nullCount > 0 /\ nullCount < total]
    IN  IF ClearlyDominant(d.max, total)
        THEN CASE d.type = "object" ->
                    LET r == inferObjectProperties(smp, cap, path, order) IN
                    [schema |-> Some([base EXCEPT !.Type = "object",
                                                  !.Properties = Some(r.properties)]),
                     samples |-> r.samples]
               [] d.type = "array" ->
                    LET r == inferArrayItems(smp, cap, path, order) IN
                    [schema |-> Some([base EXCEPT !.Type = "array", !.Items = r.schema]),
                     samples |-> r.samples]
               [] d.type = "string" ->
                    [schema |-> Some([base EXCEPT !.Type = "string",
                                                  !.Format = FirstFormat(ss)]),
                     samples |-> smp]
               [] OTHER ->
                    [schema |-> Some([base EXCEPT !.Type = d.type]), samples |-> smp]
        ELSE [schema |-> Some([base EXCEPT !.Type = "string", !.Format = "any"]),
              samples |-> smp]

\* InferSchema returning an empty schema, not nil, for a path without
\* samples.
InferSchemaOfEmptyForNone(smp, cap, path, order) ==
    LET ss == SamplesAt(smp, path) IN
    IF Len(ss) = 0 THEN [schema |-> Some(EmptySchema), samples |-> smp]
    ELSE IF SameType(ss)
    THEN [schema |-> Some(enhanceSchema(inferType(ss[1]), ss, cap, order)),
          samples |-> smp]
    ELSE handleMixedTypes(smp, cap, path, order)

\* InferSchema: nil without samples; otherwise the first sample's schema,
\* enhanced when all samples infer the same type, else handleMixedTypes.
InferSchemaOf(smp, cap, path, order) ==
    LET ss == SamplesAt(smp, path) IN
    IF Len(ss) = 0 THEN [schema |-> Nil, samples |-> smp]
    ELSE IF SameType(ss)
    THEN [schema |-> Some(enhanceSchema(inferType(ss[1]), ss, cap, order)),
          samples |-> smp]
    ELSE handleMixedTypes(smp, cap, path, order)

----------------------------------------------------------------------------
(* Inputs and actions of the TypeInferrer *)

StrA == Str("a", 3)
StrB == Str("b", 3)
ObjXA == Obj([n \in {"x"} |-> StrA])
ObjXNull == Obj([n \in {"x"} |-> Null])
ArrA == Arr(<<StrA>>)

\* The values fed to an inferrer with a small cap, and to one with the
\* default cap.
RichFeed == {Null, StrA, ObjXA, ObjXNull, ArrA}
DefaultFeed == {Null, StrA, StrB}

\* The iteration orders of a map keyed by the strings above.
StrOrders == Perms({StrA, StrB})

Root == <<"root">>
\* The paths the caller feeds, and the paths it asks a schema for.
FeedPaths == {Root}
QueryPaths == {Root, PropPath(Root, "x"), ItemPath(Root)}

Op(op, path, value, schema) ==
    Some([op |-> op, path |-> path, value |-> value, schema |-> schema])

\* NewTypeInferrer(n), with the values this run's caller will feed.
NewTypeInferrer(n, values) ==
    /\ maxSamplesArg = n
    /\ maxSamples = NewMaxSamples(n)
    /\ samples = EmptyMap
    /\ nullFed = {}
    /\ feed = values
    /\ lastOp = Nil
    /\ strRun = Nil

AddSample(path, value) ==
    /\ samples' = AddSampleTo(samples, maxSamples, path, value)
    /\ nullFed' = IF value = Null THEN nullFed \cup {path} ELSE nullFed
    /\ lastOp' = Op("AddSample", path, Some(value), Nil)
    /\ UNCHANGED <<heapVars, genVars, mergerVars, pair, bodyVars, maxSamplesArg, maxSamples, feed, strRun>>

ResetSamples ==
    /\ samples' = EmptyMap
    /\ nullFed' = {}
    /\ lastOp' = Op("ResetSamples", <<>>, Nil, Nil)
    /\ UNCHANGED <<heapVars, genVars, mergerVars, pair, bodyVars, maxSamplesArg, maxSamples, feed, strRun>>

InferSchema(path) ==
    /\ \E order \in StrOrders :
          LET r == InferSchemaOf(samples, maxSamples, path, order) IN
          /\ samples' = r.samples
          /\ lastOp' = Op("InferSchema", path, Nil, r.schema)
    /\ UNCHANGED <<heapVars, genVars, mergerVars, pair, bodyVars, maxSamplesArg, maxSamples, nullFed, feed, strRun>>

InitInfer ==
    /\ \/ \E n \in 1..MaxCap : NewTypeInferrer(n, RichFeed)
       \/ \E n \in {-1, 0} : NewTypeInferrer(n, DefaultFeed)
    /\ MergerIdle /\ PairIdle /\ BodyIdle /\ HeapIdle /\ GenIdle

NextInfer ==
    \/ \E p \in FeedPaths, v \in feed : AddSample(p, v)
    \/ ResetSamples
    \/ \E p \in QueryPaths : InferSchema(p)

\* One TypeInferrer: AddSample, ResetSamples and InferSchema in any order.
SpecInfer == InitInfer /\ [][NextInfer]_vars

----------------------------------------------------------------------------
(* Direct evaluations of enhanceStringSchema *)

Chars == <<"a", "b", "c", "d", "e", "f", "g", "h">>
ShortLen == 3
\* The lengths tried for one string of a list: short, and around the limit.
StrLens == {ShortLen, ShortStringMax - 1, ShortStringMax, ShortStringMax + 1}

\* A list of n string samples with d distinct values, taken in rotation; the
\* j-th distinct string has length len, the others are short.
StringSamples(n, d, j, len) ==
    [i \in 1..n |->
        LET x == ((i - 1) % d) + 1 IN
        Str(Chars[x], IF x = j THEN len ELSE ShortLen)]

\* The iteration orders of the uniqueValues map: every order of the distinct
\* values; the map is only ranged over when it holds at most EnumMaxUnique
\* values, so one order stands for all beyond that.
UniqueOrders(ss) ==
    IF Cardinality(Range(ss)) <= EnumMaxUnique
    THEN Perms(Range(ss))
    ELSE {CHOOSE p \in Perms(Range(ss)) : TRUE}

\* enhanceStringSchema(&Schema{Type: "string"}, samples) on the drawn list.
EnhanceString ==
    /\ strRun # Nil
    /\ strRun[1].schema = Nil
    /\ \E order \in UniqueOrders(strRun[1].samples) :
          strRun' = Some([strRun[1] EXCEPT !.schema =
                Some(enhanceStringSchema(Leaf("string", <<>>), strRun[1].samples, order))])
    /\ UNCHANGED <<heapVars, genVars, mergerVars, pair, bodyVars, inferVars>>

InitString ==
    /\ \E n \in 1..MaxStrSamples :
       \E d \in 1..(IF n < MaxDistinct THEN n ELSE MaxDistinct) :
       \E j \in 1..d, len \in StrLens :
          strRun = Some([samples |-> StringSamples(n, d, j, len), schema |-> Nil])
    /\ maxSamplesArg = 0
    /\ maxSamples = 0
    /\ samples = EmptyMap
    /\ nullFed = {}
    /\ feed = {}
    /\ lastOp = Nil
    /\ MergerIdle /\ PairIdle /\ BodyIdle /\ HeapIdle /\ GenIdle

NextString == EnhanceString

\* Direct evaluations of enhanceStringSchema on lists of string samples.
SpecString == InitString /\ [][NextString]_vars

----------------------------------------------------------------------------
(* InferSchema on a path that holds samples of several kinds *)

One == Num(2)
OneAndHalf == Num(3)
True == Bool(TRUE)

\* n copies of value v.
Rep(v, n) == [i \in 1..n |-> v]

\* A TypeInferrer whose root path was fed, by AddSample, the given numbers of
\* strings, integral numbers, fractional numbers, booleans, objects and
\* arrays, in that order.
InitMixed ==
    /\ \E nStr \in 0..MaxMixed :
       \E nInt \in 0..(MaxMixed - nStr) :
       \E nFrac \in 0..(MaxMixed - nStr - nInt) :
       \E nBool \in 0..(MaxMixed - nStr - nInt - nFrac) :
       \E nObj \in 0..(MaxMixed - nStr - nInt - nFrac - nBool) :
       \E nArr \in 0..(MaxMixed - nStr - nInt - nFrac - nBool - nObj) :
          /\ nStr + nInt + nFrac + nBool + nObj + nArr >= 1
          /\ samples = [p \in {Root} |->
                Rep(StrA, nStr) \o Rep(One, nInt) \o Rep(OneAndHalf, nFrac)
                    \o Rep(True, nBool) \o Rep(ObjXA, nObj) \o Rep(ArrA, nArr)]
    /\ maxSamplesArg = MaxMixed
    /\ maxSamples = NewMaxSamples(MaxMixed)
    /\ nullFed = {}
    /\ feed = {}
    /\ lastOp = Nil
    /\ strRun = Nil
    /\ MergerIdle /\ PairIdle /\ BodyIdle /\ HeapIdle /\ GenIdle

NextMixed == InferSchema(Root)

\* InferSchema on the root path of inferrers fed every mix of kinds.
SpecMixed == InitMixed /\ [][NextMixed]_vars

----------------------------------------------------------------------------
(* inferObjectProperties on a path that holds object samples *)

\* Objects over the keys x (a string, a null, or absent) and y (a number or
\* absent).
ObjXAY == Obj([n \in {"x", "y"} |-> IF n = "x" THEN StrA ELSE One])
ObjXNullY == Obj([n \in {"x", "y"} |-> IF n = "x" THEN Null ELSE One])
ObjY == Obj([n \in {"y"} |-> One])
PropObjects == {ObjXAY, ObjXNullY, ObjXA, ObjY}

\* A direct call of inferObjectProperties(path).
InferObjectProperties(path) ==
    /\ \E order \in StrOrders :
          LET r == inferObjectProperties(samples, maxSamples, path, order) IN
          /\ samples' = r.samples
          /\ lastOp' = Some([op |-> "inferObjectProperties", path |-> path,
                             value |-> Nil, schema |-> Nil,
                             properties |-> r.properties])
    /\ UNCHANGED <<heapVars, genVars, mergerVars, pair, bodyVars, maxSamplesArg, maxSamples, nullFed, feed, strRun>>

\* A TypeInferrer whose root path was fed a list of objects and strings.
InitProps ==
    /\ \E ss \in SeqsUpTo(PropObjects \cup {StrA}, MaxObjSamples) :
          /\ Len(ss) >= 1
          /\ samples = [p \in {Root} |-> ss]
    /\ maxSamplesArg = MaxObjSamples
    /\ maxSamples = NewMaxSamples(MaxObjSamples)
    /\ nullFed = {}
    /\ feed = {}
    /\ lastOp = Nil
    /\ strRun = Nil
    /\ MergerIdle /\ PairIdle /\ BodyIdle /\ HeapIdle /\ GenIdle

NextProps ==
    \/ InferObjectProperties(Root)
    \/ InferSchema(Root)

\* inferObjectProperties and InferSchema on the root path of inferrers fed
\* objects with varying keys.
SpecProps == InitProps /\ [][NextProps]_vars

----------------------------------------------------------------------------
(* Inference from one numeric value: TypeInferrer.inferType and the        *)
(* parser's inferSchema                                                    *)

\* Small numbers in halves, and multiples of 2^30 and 2^62 around the limits
\* of 32- and 64-bit integers.
NumberFeed ==
    {Num(h) : h \in (-MaxHalves)..MaxHalves}
        \cup {Scaled(h, 31) : h \in {-3, -2, -1, 1, 2, 3}}
        \cup {Scaled(h, 63) : h \in {-2, -1, 1, 2}}

\* t.inferType(v) on some build.
InferType(v) ==
    /\ \E build \in Builds :
          lastOp' = Some([op |-> "inferType", path |-> <<>>, value |-> Some(v),
                          schema |-> Some(inferTypeOn(build, v)), build |-> build])
    /\ UNCHANGED <<heapVars, genVars, mergerVars, pair, bodyVars, maxSamplesArg, maxSamples,
                   samples, nullFed, feed, strRun>>

\* inferSchema(v) of parser.go on some build.
ParserInferSchema(v) ==
    /\ \E build \in Builds :
          lastOp' = Some([op |-> "inferSchema", path |-> <<>>, value |-> Some(v),
                          schema |-> Some(inferSchema(build, v)), build |-> build])
    /\ UNCHANGED <<heapVars, genVars, mergerVars, pair, bodyVars, maxSamplesArg, maxSamples,
                   samples, nullFed, feed, strRun>>

InitNumber ==
    /\ NewTypeInferrer(0, NumberFeed)
    /\ MergerIdle /\ PairIdle /\ BodyIdle /\ HeapIdle /\ GenIdle

NextNumber ==
    \/ \E v \in feed : InferType(v)
    \/ \E v \in feed : ParserInferSchema(v)

\* Direct inferences from single numbers, on every build.
SpecNumber == InitNumber /\ [][NextNumber]_vars

----------------------------------------------------------------------------
(* enhanceNumberSchema on a list of numbers *)

\* Numbers at and around the ends of the int32 range of the enhancement,
\* and a fractional one inside it.
RangeNumbers == {Num(-2), Num(0), Num(3), Num(510), Num(511), Num(512)}

\* A direct call of enhanceNumberSchema(schema, samples[path]), on the schema
\* inferType gives the first sample or on a bare number schema.
EnhanceNumber(path) ==
    /\ \E schema \in {inferType(samples[path][1]),
                      [EmptySchema EXCEPT !.Type = "number"]} :
          lastOp' = Some([op |-> "enhanceNumberSchema", path |-> path,
                          value |-> Nil,
                          schema |-> Some(enhanceNumberSchema(schema, samples[path])),
                          given |-> schema])
    /\ UNCHANGED <<heapVars, genVars, mergerVars, pair, bodyVars, maxSamplesArg, maxSamples,
                   samples, nullFed, feed, strRun>>

\* A TypeInferrer whose root path was fed a list of numbers.
InitRange ==
    /\ \E ss \in SeqsUpTo(RangeNumbers, MaxNumSamples) :
          /\ Len(ss) >= 1
          /\ samples = [p \in {Root} |-> ss]
    /\ maxSamplesArg = MaxNumSamples
    /\ maxSamples = NewMaxSamples(MaxNumSamples)
    /\ nullFed = {}
    /\ feed = {}
    /\ lastOp = Nil
    /\ strRun = Nil
    /\ MergerIdle /\ PairIdle /\ BodyIdle /\ HeapIdle /\ GenIdle

NextRange ==
    \/ EnhanceNumber(Root)
    \/ InferSchema(Root)

\* enhanceNumberSchema and InferSchema on every short list of numbers.
SpecRange == InitRange /\ [][NextRange]_vars

----------------------------------------------------------------------------
(* enhanceArraySchema on lists of arrays *)

\* The items of the arrays: a number and a string.
ArrItems == {Num(2), StrA}
ArraySamples == {Arr(s) : s \in SeqsUpTo(ArrItems, MaxArrLen)}

\* A direct call of enhanceArraySchema(schema, samples[path]) on the schema
\* inferType gives the first sample.
EnhanceArray(path) ==
    /\ \E order \in StrOrders :
          lastOp' = Some([op |-> "enhanceArraySchema", path |-> path,
                          value |-> Nil,
                          schema |-> Some(enhanceArraySchema(inferType(samples[path][1]),
                                              samples[path], maxSamples, order))])
    /\ UNCHANGED <<heapVars, genVars, mergerVars, pair, bodyVars, maxSamplesArg, maxSamples,
                   samples, nullFed, feed, strRun>>

\* A TypeInferrer with a small cap whose root path was fed arrays.
InitArray ==
    /\ \E n \in 1..MaxArrSamples :
          /\ maxSamplesArg = n
          /\ maxSamples = NewMaxSamples(n)
          /\ \E ss \in SeqsUpTo(ArraySamples, n) :
                /\ Len(ss) >= 1
                /\ samples = [p \in {Root} |-> ss]
    /\ nullFed = {}
    /\ feed = {}
    /\ lastOp = Nil
    /\ strRun = Nil
    /\ MergerIdle /\ PairIdle /\ BodyIdle /\ HeapIdle /\ GenIdle

NextArray ==
    \/ EnhanceArray(Root)
    \/ InferSchema(Root)

\* enhanceArraySchema and InferSchema on every short list of short arrays.
SpecArray == InitArray /\ [][NextArray]_vars

----------------------------------------------------------------------------
(* ApplyTypeInference and mergeSchemaWithImprovement on schemas in memory *)

RECURSIVE AddSamples(_, _, _, _)
\* for _, sample := range samples { inferrer.AddSample(path, sample) }
AddSamples(smp, cap, path, ss) ==
    IF ss = <<>> THEN smp
    ELSE AddSamples(AddSampleTo(smp, cap, path, Head(ss)), cap, path, Tail(ss))

RECURSIVE AddMissingProps(_, _, _, _)
\* mergeSchemaWithImprovement, the loop over improved.Properties: a name
\* the result's map lacks is written into that map.
AddMissingProps(h, result, improved, todo) ==
    IF todo = {} THEN h
    ELSE LET name == CHOOSE x \in todo : TRUE
             h1 == IF name \notin DOMAIN h[result].props
                   THEN [h EXCEPT ![result].props =
                            MapPut(@, name, h[improved].props[name])]
                   ELSE h
         IN  AddMissingProps(h1, result, improved, todo \ {name})

\* mergeSchemaWithImprovement on structs: result := original copies the
\* references of original.
mergeSchemaWithImprovementH(h, original, improved) ==
    LET r0 == IF original.Type = "" THEN [original EXCEPT !.Type = improved.Type]
              ELSE original
        r1 == IF r0.Format = "" /\ improved.Format # ""
              THEN [r0 EXCEPT !.Format = improved.Format] ELSE r0
        r2 == IF Len(r1.Enum) = 0 /\ Len(improved.Enum) > 0
              THEN [r1 EXCEPT !.Enum = improved.Enum] ELSE r1
        r3 == IF r2.Example = Nil /\ improved.Example # Nil
              THEN [r2 EXCEPT !.Example = improved.Example] ELSE r2
        objects == r3.Type = "object" /\ improved.Type = "object"
        r4 == IF objects /\ r3.Properties = NilAddr
              THEN [r3 EXCEPT !.Properties = improved.Properties] ELSE r3
        h1 == IF objects /\ r3.Properties # NilAddr /\ improved.Properties # NilAddr
              THEN AddMissingProps(h, r3.Properties, improved.Properties,
                                   DOMAIN h[improved.Properties].props)
              ELSE h
        r5 == IF r4.Type = "array" /\ improved.Type = "array"
                  /\ r4.Items = NilAddr /\ improved.Items # NilAddr
              THEN [r4 EXCEPT !.Items = improved.Items] ELSE r4
    IN  [heap |-> h1, schema |-> r5]

RECURSIVE ImproveProps(_, _, _, _)
\* ApplyTypeInference, the loop over improved.Properties: every name is
\* written into result.Properties, new or merged with the existing entry.
ImproveProps(h, result, improved, todo) ==
    IF todo = {} THEN h
    ELSE LET name == CHOOSE x \in todo : TRUE
             propSchema == h[improved].props[name]
             m == IF name \notin DOMAIN h[result].props
                  THEN [heap |-> h, schema |-> propSchema]
                  ELSE mergeSchemaWithImprovementH(h, h[result].props[name], propSchema)
         IN  ImproveProps([m.heap EXCEPT ![result].props = MapPut(@, name, m.schema)],
                          result, improved, todo \ {name})

\* ApplyTypeInference, the array case: result.Items becomes the improved
\* pointer, or a pointer to a new struct holding the merged items.
ImproveItems(h, result, improved) ==
    LET arrays == result.Type = "array" /\ improved.Type = "array"
        m == mergeSchemaWithImprovementH(h, h[result.Items].schema,
                                         h[improved.Items].schema)
    IN  IF arrays /\ result.Items = NilAddr /\ improved.Items # NilAddr
        THEN [heap |-> h, schema |-> [result EXCEPT !.Items = improved.Items]]
        ELSE IF arrays /\ result.Items # NilAddr /\ improved.Items # NilAddr
        THEN [heap |-> Append(m.heap, [schema |-> m.schema]),
              schema |-> [result EXCEPT !.Items = Len(m.heap) + 1]]
        ELSE [heap |-> h, schema |-> result]

\* ApplyTypeInference, the object case: a nil result.Properties becomes a
\* new map; each improved property is written into result.Properties.
ImproveObject(h, result, improved) ==
    LET objects == result.Type = "object" /\ improved.Type = "object"
        h1 == IF objects /\ result.Properties = NilAddr
              THEN Append(h, [props |-> EmptyMap]) ELSE h
        r1 == IF objects /\ result.Properties = NilAddr
              THEN [result EXCEPT !.Properties = Len(h) + 1] ELSE result
    IN  IF objects /\ improved.Properties # NilAddr
        THEN ImproveItems(ImproveProps(h1, r1.Properties, improved.Properties,
                                       DOMAIN h1[improved.Properties].props),
                          r1, improved)
        ELSE ImproveItems(h1, r1, improved)

\* ApplyTypeInference from result := schema on: the copy holds the
\* references of the caller's schema; type, format and enum are filled in.
Improve(h, schema, improved) ==
    LET r0 == IF schema.Type = "" THEN [schema EXCEPT !.Type = improved.Type]
              ELSE schema
        r1 == IF r0.Format = "" /\ improved.Format # ""
              THEN [r0 EXCEPT !.Format = improved.Format] ELSE r0
    IN  IF Len(r1.Enum) = 0 /\ Len(improved.Enum) > 0
        THEN ImproveObject(h, [r1 EXCEPT !.Enum = improved.Enum], improved)
        ELSE ImproveObject(h, r1, improved)

\* The improved schema as the inferrer returns it: nil, or a pointer to a
\* schema in maps and pointers of its own.
ImproveWith(h, schema, inferred) ==
    IF inferred = Nil THEN [heap |-> h, schema |-> schema]
    ELSE Improve(Store(h, inferred[1]).heap, schema, Store(h, inferred[1]).schema)

\* ApplyTypeInference on a struct: a new inferrer is fed the samples at
\* "root" and asked for the schema there.
ApplyTypeInferenceH(h, schema, ss, n, order) ==
    ImproveWith(h, schema,
                InferSchemaOf(AddSamples(EmptyMap, NewMaxSamples(n), Root, ss),
                              NewMaxSamples(n), Root, order).schema)

\* The schemas a caller hands to ApplyTypeInference.
XString == [n \in {"x"} |-> Leaf("string", <<>>)]
XObject == [n \in {"x"} |-> Object(Some(EmptyMap), <<>>)]
ApplyPool ==
    {EmptySchema, Object(Nil, <<>>), Object(Some(IdInt), <<"id">>),
     Object(Some(XString), <<>>), Object(Some(XObject), <<>>),
     Array(Some(Object(Some(EmptyMap), <<>>)))}

\* The samples it hands over with them.
ObjXObj == Obj([n \in {"x"} |-> ObjXA])
ApplySamples == {StrA, ObjXA, ObjXObj, Arr(<<ObjXA>>)}

\* A caller that holds a schema and is about to call ApplyTypeInference.
InitApply ==
    /\ \E schema \in ApplyPool, ss \in SeqsUpTo(ApplySamples, MaxApplySamples),
          n \in {1, DefaultMaxSamples} :
          LET st == Store(<<>>, schema) IN
          /\ heap = st.heap
          /\ frame = Some([fn |-> "ApplyTypeInference", schema |-> st.schema,
                           samples |-> ss, maxSamples |-> n,
                           before |-> Nil, result |-> Nil])
    /\ MergerIdle /\ PairIdle /\ BodyIdle /\ InferIdle /\ GenIdle

\* The call ApplyTypeInference(schema, samples, maxSamples).
ApplyInference ==
    /\ frame # Nil
    /\ frame[1].result = Nil
    /\ \E order \in StrOrders :
          LET r == ApplyTypeInferenceH(heap, frame[1].schema, frame[1].samples,
                                       frame[1].maxSamples, order)
          IN  /\ heap' = r.heap
              /\ frame' = Some([frame[1] EXCEPT !.before = Some(heap),
                                                !.result = Some(r.schema)])
    /\ UNCHANGED <<mergerVars, pair, bodyVars, inferVars, strRun, genVars>>

NextApply == ApplyInference

\* ApplyTypeInference on every pool schema and short list of samples.
SpecApply == InitApply /\ [][NextApply]_vars

----------------------------------------------------------------------------
(* pkg/openapi/openapi.go: OpenAPIGenerator                                *)
(* A body is a sequence of JSON tokens: punctuation, keys, and scalar      *)
(* values; the bodies of the model are flat objects and arrays, whole or   *)
(* cut short.  A path is a sequence of tokens in which "%" starts an       *)
(* escape.  The document is kept as the parser schemas handed to           *)
(* toOpenAPISchema for each operation.                                     *)

\* typeInferrer := parser.NewTypeInferrer(10), and ApplyTypeInference(.., 10)
GeneratorMaxSamples == 10

Punct(c) == [k |-> "punct", c |-> c]
KeyTok(name) == [k |-> "key", c |-> name]
IsPunct(t, c) == t.k = "punct" /\ t.c = c
ScalarKinds == {"str", "num", "bool", "null"}

\* A string value whose text c, of n bytes, is held whole.
Text(c, n) == Str(c, n)

RECURSIVE Members(_, _)
\* The members of an object, from the first key on.
Members(ts, acc) ==
    IF Len(ts) < 3 THEN Nil
    ELSE IF ts[1].k # "key" \/ ~IsPunct(ts[2], ":") \/ ts[3].k \notin ScalarKinds THEN Nil
    ELSE LET acc1 == MapPut(acc, ts[1].c, ts[3])
             rest == SubSeq(ts, 4, Len(ts))
         IN  IF rest = <<>> THEN Some(acc1)
             ELSE IF IsPunct(rest[1], ",") THEN Members(Tail(rest), acc1)
             ELSE Nil

RECURSIVE Elements(_, _)
\* The elements of an array, from the first one on.
Elements(ts, acc) ==
    IF Len(ts) < 1 THEN Nil
    ELSE IF ts[1].k \notin ScalarKinds THEN Nil
    ELSE IF Len(ts) = 1 THEN Some(Append(acc, ts[1]))
    ELSE IF IsPunct(ts[2], ",") THEN Elements(SubSeq(ts, 3, Len(ts)), Append(acc, ts[1]))
    ELSE Nil

\* json.Unmarshal(body, &bodyObj) into a map: the object, or Nil for an
\* error (no JSON, or JSON that is no object).
DecodeObject(body) ==
    IF Len(body) < 2 THEN Nil
    ELSE IF ~IsPunct(body[1], "{") \/ ~IsPunct(body[Len(body)], "}") THEN Nil
    ELSE IF Len(body) = 2 THEN Some(Obj(EmptyMap))
    ELSE LET m == Members(SubSeq(body, 2, Len(body) - 1), EmptyMap)
         IN  IF m = Nil THEN Nil ELSE Some(Obj(m[1]))

\* json.Unmarshal(body, &bodyArr) into a slice.
DecodeArray(body) ==
    IF Len(body) < 2 THEN Nil
    ELSE IF ~IsPunct(body[1], "[") \/ ~IsPunct(body[Len(body)], "]") THEN Nil
    ELSE IF Len(body) = 2 THEN Some(Arr(<<>>))
    ELSE LET a == Elements(SubSeq(body, 2, Len(body) - 1), <<>>)
         IN  IF a = Nil THEN Nil ELSE Some(Arr(a[1]))

\* A body that is the base64 text of the bytes inner; such a text starts
\* with 'W' when inner starts with '['.
Base64(inner) == <<[k |-> "b64", inner |-> inner]>>

\* maybeDecodeBase64: the decoded bytes when the data starts with 'W',
\* decodes, and the result starts with '{' or '['; else the data.
maybeDecodeBase64(data) ==
    IF Len(data) > 0 /\ data[1].k = "b64" /\ Len(data[1].inner) > 0
        /\ (IsPunct(data[1].inner[1], "{") \/ IsPunct(data[1].inner[1], "["))
    THEN data[1].inner
    ELSE data

HexDigits == Digits \cup {"a", "b", "c", "d", "e", "f", "A", "B", "C", "D", "E", "F"}

\* url.Parse(path) returns a URL: every "%" is followed by two hex digits.
\* (The other errors of url.Parse do not occur on the paths of the model.)
UrlParses(path) ==
    \A i \in 1..Len(path) :
        path[i] = "%" =>
            /\ i + 2 <= Len(path)
            /\ path[i + 1] \in HexDigits
            /\ path[i + 2] \in HexDigits

RECURSIVE convertPlaceholders(_)
\* convertPlaceholders: the placeholder strings of a sanitized body become
\* sample values; "__integer__" becomes an int64.
convertPlaceholders(value) ==
    CASE value.k = "obj" ->
            Obj([n \in DOMAIN value.m |-> convertPlaceholders(value.m[n])])
      [] value.k = "arr" ->
            Arr([i \in 1..Len(value.a) |-> convertPlaceholders(value.a[i])])
      [] value.k = "str" ->
            CASE value.c = "__string__" -> Text("string", 6)
              [] value.c = "__integer__" -> [k |-> "int64", h |-> 0]
              [] value.c = "__number__" -> Num(0)
              [] value.c = "__boolean__" -> Bool(FALSE)
              [] value.c = "__unknown__" -> Text("unknown", 7)
              [] value.c = "__redacted__" -> Text("redacted", 8)
              [] OTHER -> value
      [] OTHER -> value

RECURSIVE parseConverted(_, _, _)
\* parseJSONBody after the conversion of the placeholders: Nil for a nil
\* body and for an unsupported type (an error), else the schema. The
\* required list of an object is built in map iteration order.
parseConverted(build, v, it) ==
    CASE v.k = "null" -> Nil
      [] v.k = "obj" ->
            LET parsed == [n \in DOMAIN v.m |->
                              parseConverted(build, convertPlaceholders(v.m[n]), it)]
                kept == {n \in DOMAIN v.m : parsed[n] # Nil}
            IN  Some(Object(Some([n \in kept |-> parsed[n][1]]), OrderBy(it.names, kept)))
      [] v.k = "arr" ->
            LET item == IF Len(v.a) > 0
                        THEN parseConverted(build, convertPlaceholders(v.a[1]), it)
                        ELSE Nil
            IN  Some(Array(item))
      [] v.k = "str" -> Some(Leaf("string", <<>>))
      [] v.k = "num" ->
            IF EqualsItsInt(build, v, build.intBits)
            THEN Some([EmptySchema EXCEPT !.Type = "integer", !.Format = "int64"])
            ELSE Some([EmptySchema EXCEPT !.Type = "number", !.Format = "double"])
      [] v.k = "bool" -> Some(Leaf("boolean", <<>>))
      [] OTHER -> Nil

\* parseJSONBody(body)
parseJSONBody(build, body, it) == parseConverted(build, convertPlaceholders(body), it)

\* ApplyTypeInference(schema, samples, maxSamples) as the caller sees its
\* result.
Returned(r) == Load(r.heap, r.schema)
ApplyTypeInference(schema, ss, n, order) ==
    Returned(ApplyTypeInferenceH(Store(<<>>, schema).heap, Store(<<>>, schema).schema,
                                 ss, n, order))

\* "request:" + method + ":" + path, and the same for "response:"
SampleKey(side, tx) == <<side, ":">> \o tx.Method \o <<":">> \o tx.Path

\* templatedPath + ":response"
ResponsePath(path) == path \o <<":", "response">>

\* generateAPI, first pass, the samples of one transaction.
CollectSamples(smp, tx) ==
    LET req == IF tx.ReqBody # Nil THEN DecodeObject(tx.ReqBody[1]) ELSE Nil
        smp1 == IF req # Nil
                THEN AddSampleTo(smp, GeneratorMaxSamples, SampleKey("request", tx), req[1])
                ELSE smp
        decoded == IF tx.RespBody # Nil THEN maybeDecodeBase64(tx.RespBody[1]) ELSE <<>>
        obj == IF tx.RespBody # Nil THEN DecodeObject(decoded) ELSE Nil
        arr == IF tx.RespBody # Nil /\ obj = Nil THEN DecodeArray(decoded) ELSE Nil
    IN  IF obj # Nil
        THEN AddSampleTo(smp1, GeneratorMaxSamples, SampleKey("response", tx), obj[1])
        ELSE IF arr # Nil /\ Len(arr[1].a) > 0
        THEN AddSampleTo(smp1, GeneratorMaxSamples, SampleKey("response", tx), arr[1].a[1])
        ELSE smp1

RECURSIVE FirstPass(_, _)
FirstPass(smp, txs) ==
    IF txs = <<>> THEN smp
    ELSE FirstPass(CollectSamples(smp, Head(txs)), Tail(txs))

\* pathDetector.TemplatizePath(path): the paths of the model have one
\* segment and no two of them give a pattern, so the path is returned.
TemplatizePath(path) == path

\* generateAPI, second pass, a transaction of an endpoint seen before: its
\* schemas go to the merger, the response decoded as it is and as an
\* object only.
AddToMerger(st, tx, build, it) ==
    LET path == TemplatizePath(tx.Path)
        req == IF tx.ReqBody # Nil THEN DecodeObject(tx.ReqBody[1]) ELSE Nil
        reqSchema == IF req # Nil THEN parseJSONBody(build, req[1], it) ELSE Nil
        m1 == IF reqSchema # Nil
              THEN AddSchemaTo(st.schemas, path, tx.Method, reqSchema[1])
              ELSE st.schemas
        resp == IF tx.RespBody # Nil THEN DecodeObject(tx.RespBody[1]) ELSE Nil
        respSchema == IF resp # Nil THEN parseJSONBody(build, resp[1], it) ELSE Nil
        m2 == IF respSchema # Nil
              THEN AddSchemaTo(m1, ResponsePath(path), tx.Method, respSchema[1])
              ELSE m1
    IN  [st EXCEPT !.schemas = m2]

\* The schema a body's parse gives, improved by the samples: nil when the
\* body gave no schema.
Inferred(parsed, ss, order) ==
    IF parsed # Nil
    THEN Some(ApplyTypeInference(parsed[1], ss, GeneratorMaxSamples, order))
    ELSE Nil

\* generateAPI, the request body of a new operation: an object that
\* decodes and parses.
ParsedRequest(tx, build, it) ==
    LET req == IF tx.ReqBody # Nil THEN DecodeObject(tx.ReqBody[1]) ELSE Nil
    IN  IF req # Nil THEN parseJSONBody(build, req[1], it) ELSE Nil

\* generateAPI, the response body of a new operation: decoded from base64
\* where it applies, an object, or an array whose first element gives the
\* items.
ParsedResponse(tx, build, it) ==
    LET decoded == IF tx.RespBody # Nil THEN maybeDecodeBase64(tx.RespBody[1]) ELSE <<>>
        obj == IF tx.RespBody # Nil THEN DecodeObject(decoded) ELSE Nil
        arr == IF tx.RespBody # Nil /\ obj = Nil THEN DecodeArray(decoded) ELSE Nil
        item == IF arr # Nil /\ Len(arr[1].a) > 0
                THEN parseJSONBody(build, arr[1].a[1], it) ELSE Nil
    IN  IF obj # Nil THEN parseJSONBody(build, obj[1], it)
        ELSE IF item # Nil THEN Some(Array(item))
        ELSE Nil

\* The samples handed to ApplyTypeInference with a side's schema: the body
\* as it is, when it decodes as an object.
BodySamples(body) ==
    LET raw == IF body # Nil THEN DecodeObject(body[1]) ELSE Nil
    IN  IF raw # Nil THEN <<raw[1]>> ELSE <<>>

\* The request and the response schema of a new operation.
SideSchemas(tx, build, it, order) ==
    [side \in {"request", "response"} |->
        Inferred(IF side = "request" THEN ParsedRequest(tx, build, it)
                 ELSE ParsedResponse(tx, build, it),
                 BodySamples(IF side = "request" THEN tx.ReqBody ELSE tx.RespBody),
                 order)]

\* The operation and the schemas handed to the merger for it.
Operation(st, tx, sides) ==
    LET path == TemplatizePath(tx.Path)
        m1 == IF sides.request # Nil
              THEN AddSchemaTo(st.schemas, path, tx.Method, sides.request[1])
              ELSE st.schemas
        m2 == IF sides.response # Nil
              THEN AddSchemaTo(m1, ResponsePath(path), tx.Method, sides.response[1])
              ELSE m1
    IN  [st EXCEPT !.schemas = m2,
                   !.ops = MapPut(@, <<path, tx.Method>>,
                                  [request |-> sides.request,
                                   response |-> sides.response])]

\* generateAPI, second pass, the first transaction of an endpoint: the
\* operation is made, with the request and response schemas that parse.
NewOperation(st, tx, build, it, order) ==
    Operation(st, tx, SideSchemas(tx, build, it, order))

RECURSIVE SecondPass(_, _, _, _, _)
SecondPass(st, txs, build, it, order) ==
    IF txs = <<>> THEN st
    ELSE LET tx == Head(txs)
             st1 == IF <<TemplatizePath(tx.Path), tx.Method>> \in DOMAIN st.ops
                    THEN AddToMerger(st, tx, build, it)
                    ELSE NewOperation(st, tx, build, it, order)
         IN  SecondPass(st1, Tail(txs), build, it, order)

\* generateAPI, the merging loop: an operation that has a request body or a
\* response content gets the merged schema of its bucket.
MergeOperations(st, it) ==
    [st EXCEPT !.ops =
        [ep \in DOMAIN st.ops |->
            [request |->
                IF st.ops[ep].request # Nil
                THEN Some(MergeSchemasOf(st.schemas, ep[1], ep[2], it))
                ELSE Nil,
             response |->
                IF st.ops[ep].response # Nil
                THEN Some(MergeSchemasOf(st.schemas, ResponsePath(ep[1]), ep[2], it))
                ELSE Nil]]]

\* generateAPI: a nil pointer dereference on the URL of a path that does not
\* parse (line 173, or in AnalyzeTransaction); else the document, with the
\* inferrer's samples and the merger's buckets as they are at the return.
generateAPI(txs, build, it, order) ==
    IF \E i \in 1..Len(txs) : ~UrlParses(txs[i].Path)
    THEN [outcome |-> "panic", err |-> Nil, samples |-> EmptyMap,
          schemas |-> EmptyMap, ops |-> EmptyMap]
    ELSE
        [outcome |-> "returned", err |-> Nil] @@
        [samples |-> FirstPass(EmptyMap, txs)] @@
        MergeOperations(SecondPass([schemas |-> EmptyMap, ops |-> EmptyMap], txs,
                                   build, it, order), it)

\* The bodies of the transactions: sanitized objects, an array, an array in
\* base64, a body cut short, and the empty body the proxy records for a
\* body it could not sanitize.
IdBody ==
    <<Punct("{"), KeyTok("id"), Punct(":"), Text("__string__", 10), Punct("}")>>
IdNameBody ==
    <<Punct("{"), KeyTok("id"), Punct(":"), Text("__string__", 10), Punct(","),
      KeyTok("name"), Punct(":"), Text("__integer__", 11), Punct("}")>>
ArrayBody == <<Punct("["), StrA, Punct("]")>>
CutBody == <<Punct("{"), KeyTok("id"), Punct(":")>>
EmptyBody == <<>>

GoodPath == <<"/u">>
OtherPath == <<"/v">>
BadPath == <<"/u", "%", "z", "z">>

Transaction(path, req, resp) ==
    [Method |-> <<"POST">>, Path |-> path, ReqBody |-> req, RespBody |-> resp]

TxPool ==
    {Transaction(GoodPath, Some(IdBody), Some(IdBody)),
     Transaction(GoodPath, Some(IdNameBody), Some(ArrayBody)),
     Transaction(GoodPath, Some(CutBody), Some(IdNameBody)),
     Transaction(GoodPath, Some(IdBody), Some(CutBody)),
     Transaction(GoodPath, Some(EmptyBody), Some(Base64(ArrayBody))),
     Transaction(GoodPath, Nil, Nil),
     Transaction(OtherPath, Some(IdNameBody), Some(IdBody)),
     Transaction(BadPath, Some(IdBody), Nil)}

\* NewOpenAPIGenerator
InitGenerator ==
    /\ transactions = <<>>
    /\ generated = Nil
    /\ MergerIdle /\ PairIdle /\ BodyIdle /\ InferIdle /\ HeapIdle

AddTransaction(tx) ==
    /\ Len(transactions) < MaxTx
    /\ transactions' = Append(transactions, tx)
    /\ generated' = Nil
    /\ UNCHANGED <<mergerVars, pair, bodyVars, inferVars, strRun, heapVars>>

GenerateSpec ==
    /\ \E build \in Builds, it \in Iters, order \in StrOrders :
          generated' = Some(generateAPI(transactions, build, it, order))
    /\ UNCHANGED <<mergerVars, pair, bodyVars, inferVars, strRun, heapVars, transactions>>

NextGenerator ==
    \/ \E tx \in TxPool : AddTransaction(tx)
    \/ GenerateSpec

\* GenerateSpec on every short batch of pool transactions.
SpecGenerator == InitGenerator /\ [][NextGenerator]_vars

----------------------------------------------------------------------------
(* Claims about the TypeInferrer *)

LastIs(op) == lastOp # Nil /\ lastOp[1].op = op

\* Some object sample of ss holds property name with a null value, and some
\* object sample holds it with a non-null value.
NullAndValueSeen(ss, name) ==
    /\ \E i \in 1..Len(ss) :
          ss[i].k = "obj" /\ name \in DOMAIN ss[i].m /\ ss[i].m[name] = Null
    /\ \E i \in 1..Len(ss) :
          ss[i].k = "obj" /\ name \in DOMAIN ss[i].m /\ ss[i].m[name] # Null

\* C7: a field observed at least once as an explicit null and at least once
\* as a non-null value, through AddSample on its path or as a property of
\* object samples, gets nullable = true in the inferred schema.
C7_NullAndValueGivesNullable ==
    (LastIs("InferSchema") /\ lastOp[1].schema # Nil) =>
        LET p == lastOp[1].path
            sch == lastOp[1].schema[1]
            ss == SamplesAt(samples, p)
        IN  /\ (p \in nullFed /\ ss # <<>>) => sch.Nullable
            /\ \A name \in PropNames(ss) :
                  NullAndValueSeen(ss, name) =>
                      /\ sch.Properties # Nil
                      /\ name \in DOMAIN sch.Properties[1]
                      /\ sch.Properties[1][name].Nullable

RECURSIVE EnumAsSet(_)
\* A schema with every enum list replaced by its set of values.
EnumAsSet(s) ==
    [s EXCEPT
        !.Enum = Range(s.Enum),
        !.Properties = IF s.Properties = Nil THEN Nil
                       ELSE Some([n \in DOMAIN s.Properties[1] |->
                                    EnumAsSet(s.Properties[1][n])]),
        !.Items = IF s.Items = Nil THEN Nil ELSE Some(EnumAsSet(s.Items[1]))]

SameUpToEnumOrder(x, y) ==
    IF x = Nil \/ y = Nil THEN x = Nil /\ y = Nil
    ELSE EnumAsSet(x[1]) = EnumAsSet(y[1])

\* C8: InferSchema(path) called again, with no call in between, leaves every
\* sample list as the first call left it and returns the same schema.
C8_InferSchemaIsIdempotent ==
    [][(LastIs("InferSchema") /\ lastOp'[1].op = "InferSchema"
            /\ lastOp'[1].path = lastOp[1].path) =>
        (samples' = samples
            /\ SameUpToEnumOrder(lastOp'[1].schema, lastOp[1].schema))]_vars

IsPrefix(s, t) == Len(s) <= Len(t) /\ SubSeq(t, 1, Len(s)) = s

C9_Cap == IF maxSamplesArg > 0 THEN maxSamplesArg ELSE 10

\* Every sample list holds at most cap values, none of them null.
C9_State ==
    \A p \in DOMAIN samples :
        /\ Len(samples[p]) <= C9_Cap
        /\ \A i \in 1..Len(samples[p]) : samples[p][i] # Null

\* A step clears every list or extends lists at their end; an AddSample of a
\* null or on a full path changes no list, any other AddSample appends its
\* value to its path and changes no other list.
C9_Step ==
    /\ samples' = EmptyMap
          \/ \A p \in DOMAIN samples :
                p \in DOMAIN samples' /\ IsPrefix(samples[p], samples'[p])
    /\ lastOp'[1].op = "AddSample" =>
          LET p == lastOp'[1].path
              v == lastOp'[1].value[1]
          IN  IF v = Null \/ Len(SamplesAt(samples, p)) >= C9_Cap
              THEN samples' = samples
              ELSE /\ DOMAIN samples' = (DOMAIN samples) \cup {p}
                   /\ samples'[p] = Append(SamplesAt(samples, p), v)
                   /\ \A q \in DOMAIN samples : q # p => samples'[q] = samples[q]

\* C9: after any sequence of AddSample, InferSchema and ResetSamples calls
\* every path's sample list, caller-fed or derived, has at most cap values
\* (cap = n if n > 0, else 10), holds no null, and holds the accepted values
\* in call order with repeats kept; an AddSample of a null or on a full path
\* changes no sample list.
C9_SampleListsCappedAndOrdered == []C9_State /\ [][C9_Step]_vars

\* C9 witness: an inferrer created with maxSamples <= 0 holds ten samples
\* for a path, a repeated value among them, and has just dropped an eleventh.
C9_Witness ==
    /\ maxSamplesArg <= 0
    /\ LastIs("AddSample")
    /\ Len(SamplesAt(samples, Root)) = 10
    /\ samples[Root][1] = samples[Root][2]
    /\ lastOp[1].value[1] # Null
    /\ lastOp[1].value[1] # samples[Root][10]

StrDone == strRun # Nil /\ strRun[1].schema # Nil

\* The enum rule with "shorter than limit" / "at most limit" left open:
\* the enum is the set of distinct values exactly when the count is in
\* 2..10, at most 5 values are distinct, every value is short, and some
\* value repeats; otherwise there is no enum.
EnumRule(ss, sch, short(_)) ==
    LET distinct == Range(ss) IN
    IF /\ Len(ss) >= 2 /\ Len(ss) <= 10
       /\ Cardinality(distinct) <= 5
       /\ \A i \in 1..Len(ss) : short(ss[i])
       /\ Cardinality(distinct) < Len(ss)
    THEN Range(sch.Enum) = distinct /\ Len(sch.Enum) = Cardinality(distinct)
    ELSE sch.Enum = <<>>

\* C10, as stated: string enhancement sets enum to the distinct values
\* exactly when the count is between 2 and 10, at most 5 values are distinct,
\* every value is strictly shorter than 30, and the distinct count is below
\* the sample count.
C10_EnumRuleShorterThan30 ==
    StrDone =>
        EnumRule(strRun[1].samples, strRun[1].schema[1], LAMBDA v : StrLen(v) < 30)

\* C10, amended: the same with "every value is at most 30 bytes long".
C10_EnumRuleAtMost30 ==
    StrDone =>
        EnumRule(strRun[1].samples, strRun[1].schema[1], LAMBDA v : StrLen(v) <= 30)

\* C10 witness: a list with a repeat and a value of exactly 30 bytes got an
\* enum.
C10_Witness ==
    /\ StrDone
    /\ \E i \in 1..Len(strRun[1].samples) : StrLen(strRun[1].samples[i]) = 30
    /\ strRun[1].schema[1].Enum # <<>>

\* The samples of ss that are of one of the given kinds.
OfKinds(ss, kinds) == {i \in 1..Len(ss) : ss[i].k \in kinds}

\* The schema type the claim gives a kind that was adopted.
AdoptedType(ss, kind) ==
    CASE kind = "str" -> "string"
      [] kind = "num" ->
            IF \A i \in OfKinds(ss, {"num"}) : ss[i].h % 2 = 0
            THEN "integer" ELSE "number"
      [] kind = "bool" -> "boolean"
      [] kind = "obj" -> "object"
      [] kind = "arr" -> "array"

\* InferSchema has just returned for a path whose samples infer different
\* types.
MixedDone ==
    /\ LastIs("InferSchema")
    /\ ~SameType(SamplesAt(samples, lastOp[1].path))

\* C11: in the mixed-type branch of InferSchema a kind whose count is
\* strictly more than 70% of the samples gives the schema its type (integer
\* for the numeric kind iff every numeric sample is integral, else number);
\* when no kind has such a count the result is type string, format "any".
C11_DominantAboveSeventyPercent ==
    MixedDone =>
        LET ss == SamplesAt(samples, lastOp[1].path)
            sch == lastOp[1].schema[1]
            kinds == {"str", "num", "bool", "obj", "arr"}
        IN  /\ lastOp[1].schema # Nil
            /\ \A k \in kinds :
                  10 * Cardinality(OfKinds(ss, {k})) > 7 * Len(ss) =>
                      sch.Type = AdoptedType(ss, k)
            /\ (\A k \in kinds : 10 * Cardinality(OfKinds(ss, {k})) <= 7 * Len(ss)) =>
                  (sch.Type = "string" /\ sch.Format = "any")

\* C11 witness: seven numbers, one of them fractional, among ten samples gave
\* string/any.
C11_Witness ==
    /\ MixedDone
    /\ Len(samples[Root]) = 10
    /\ Cardinality(OfKinds(samples[Root], {"num"})) = 7
    /\ \E i \in OfKinds(samples[Root], {"num"}) : samples[Root][i].h % 2 = 1
    /\ lastOp[1].schema[1].Type = "string"
    /\ lastOp[1].schema[1].Format = "any"

\* The object samples of ss, and those of them that hold the key name.
ObjectsOf(ss) == {i \in 1..Len(ss) : ss[i].k = "obj"}
ObjectsWith(ss, name) == {i \in ObjectsOf(ss) : name \in DOMAIN ss[i].m}

\* The property map the last call inferred by object property inference:
\* the result of inferObjectProperties, or the properties of a schema that
\* InferSchema's mixed-type branch gave type object.
InferredProperties ==
    IF LastIs("inferObjectProperties") THEN Some(lastOp[1].properties)
    ELSE IF MixedDone /\ lastOp[1].schema[1].Type = "object"
    THEN lastOp[1].schema[1].Properties
    ELSE Nil

\* C12: object property inference over the object samples of a path marks
\* an inferred property nullable iff fewer object samples hold its key than
\* there are object samples at the path.
C12_NullableIffSometimesAbsent ==
    InferredProperties # Nil =>
        LET ss == SamplesAt(samples, lastOp[1].path)
            props == InferredProperties[1]
        IN  \A name \in DOMAIN props :
                props[name].Nullable <=>
                    Cardinality(ObjectsWith(ss, name)) < Cardinality(ObjectsOf(ss))

\* C12 witness: inferObjectProperties returned x, held by every object (once
\* as a null), as not nullable and y, absent from one object, as nullable.
C12_Witness ==
    /\ LastIs("inferObjectProperties")
    /\ DOMAIN lastOp[1].properties = {"x", "y"}
    /\ \E i \in ObjectsWith(samples[Root], "x") : samples[Root][i].m["x"] = Null
    /\ ~lastOp[1].properties["x"].Nullable
    /\ lastOp[1].properties["y"].Nullable

\* The keys of a properties map; a nil map has none.
KeysOf(props) == IF props = Nil THEN {} ELSE DOMAIN props[1]

\* merge(a, b).properties follows the key-union rule.
PropertiesUnion(a, b, ab) ==
    /\ KeysOf(ab.Properties) = KeysOf(a.Properties) \cup KeysOf(b.Properties)
    /\ \A k \in KeysOf(ab.Properties) :
          IF k \in KeysOf(a.Properties) /\ k \in KeysOf(b.Properties)
          THEN \E it \in Iters :
                  ab.Properties[1][k] =
                      mergeSchema(a.Properties[1][k], b.Properties[1][k], it)
          ELSE IF k \in KeysOf(a.Properties)
          THEN ab.Properties[1][k] = a.Properties[1][k]
          ELSE ab.Properties[1][k] = b.Properties[1][k]

\* C13: for object schemas a and b, merge(a,b).properties has exactly the
\* keys of a.properties and b.properties; a key of both maps to the merge of
\* the two property schemas, a key of one side to that side's schema.
C13_PropertiesMergedByKeyUnion ==
    (PairDone /\ pair[1].a.Type = "object" /\ pair[1].b.Type = "object") =>
        /\ PropertiesUnion(pair[1].a, pair[1].b, pair[1].ab[1])
        /\ PropertiesUnion(pair[1].b, pair[1].a, pair[1].ba[1])

\* C13 witness: two objects were merged that share the key id, with schemas
\* of different types, and of which only b has the key name.
C13_Witness ==
    /\ PairDone
    /\ pair[1].a.Type = "object" /\ pair[1].b.Type = "object"
    /\ KeysOf(pair[1].a.Properties) = {"id"}
    /\ KeysOf(pair[1].b.Properties) = {"id", "name"}
    /\ pair[1].a.Properties[1]["id"].Type # pair[1].b.Properties[1]["id"].Type
    /\ pair[1].ab[1].Properties[1]["id"].Type = "object"
    /\ pair[1].ab[1].Properties[1]["name"] = pair[1].b.Properties[1]["name"]

\* MergeSchemas has just returned for a key, whose bucket is Bucket.
FoldDone == merged # Nil
Bucket == SchemasOf(SubLog(merged[1].path, merged[1].method))

\* C14: for object schemas a and b the names of merge(a,b).required are
\* those of a.required and b.required together; so the MergeSchemas result
\* for a bucket of object schemas requires every name some schema requires.
C14_RequiredIsUnion ==
    /\ (PairDone /\ pair[1].a.Type = "object" /\ pair[1].b.Type = "object") =>
          /\ Range(pair[1].ab[1].Required) =
                Range(pair[1].a.Required) \cup Range(pair[1].b.Required)
          /\ Range(pair[1].ba[1].Required) =
                Range(pair[1].a.Required) \cup Range(pair[1].b.Required)
    /\ (FoldDone /\ Bucket # <<>>
            /\ \A i \in 1..Len(Bucket) : Bucket[i].Type = "object") =>
          Range(merged[1].result.Required) =
              UNION {Range(Bucket[i].Required) : i \in 1..Len(Bucket)}

\* C14 witness: MergeSchemas returned for a bucket of three objects of which
\* the first requires nothing and the other two one name each.
C14_Witness ==
    /\ FoldDone
    /\ Len(Bucket) = 3
    /\ \A i \in 1..3 : Bucket[i].Type = "object"
    /\ Bucket[1].Required = <<>>
    /\ Bucket[2].Required = <<"id">>
    /\ Bucket[3].Required = <<"name">>
    /\ Range(merged[1].result.Required) = {"id", "name"}

\* merge(a, b).items follows the four cases of the items rule.
ItemsRule(a, b, ab) ==
    CASE a.Items # Nil /\ b.Items # Nil ->
            /\ ab.Items # Nil
            /\ \E it \in Iters : ab.Items[1] = mergeSchema(a.Items[1], b.Items[1], it)
      [] a.Items = Nil /\ b.Items # Nil -> ab.Items = b.Items
      [] a.Items # Nil /\ b.Items = Nil -> ab.Items = a.Items
      [] OTHER -> ab.Items = Nil

\* C15: for array schemas a and b the items of merge(a,b) are the merge of
\* the two items when both have them, the items of the one side that has
\* them, and absent when neither has.
C15_ArrayItemsMerged ==
    (PairDone /\ pair[1].a.Type = "array" /\ pair[1].b.Type = "array") =>
        /\ ItemsRule(pair[1].a, pair[1].b, pair[1].ab[1])
        /\ ItemsRule(pair[1].b, pair[1].a, pair[1].ba[1])

\* C15 witness: two arrays with items of different types were merged.
C15_Witness ==
    /\ PairDone
    /\ pair[1].a.Type = "array" /\ pair[1].b.Type = "array"
    /\ pair[1].a.Items # Nil /\ pair[1].b.Items # Nil
    /\ pair[1].a.Items[1].Type = "string"
    /\ pair[1].b.Items[1].Type = "integer"
    /\ pair[1].ab[1].Items[1].Type = "object"
    /\ pair[1].ab[1].Items[1].Enum = <<"red">>

\* C16: merge(a,b).nullable is a.nullable or b.nullable; so the MergeSchemas
\* result for a bucket is nullable iff some schema of the bucket is.
C16_NullableIsOr ==
    /\ PairDone =>
          /\ pair[1].ab[1].Nullable = (pair[1].a.Nullable \/ pair[1].b.Nullable)
          /\ pair[1].ba[1].Nullable = (pair[1].a.Nullable \/ pair[1].b.Nullable)
    /\ (FoldDone /\ Bucket # <<>>) =>
          merged[1].result.Nullable = (\E i \in 1..Len(Bucket) : Bucket[i].Nullable)

\* C16 witness: MergeSchemas returned a nullable result for a bucket of
\* three schemas of which only the last is nullable.
C16_Witness ==
    /\ FoldDone
    /\ Len(Bucket) = 3
    /\ ~Bucket[1].Nullable /\ ~Bucket[2].Nullable /\ Bucket[3].Nullable
    /\ merged[1].result.Nullable

\* The format of the earliest schema of ss that has one, "" when none has.
FirstNonEmptyFormat(ss) ==
    IF \E i \in 1..Len(ss) : ss[i].Format # ""
    THEN ss[CHOOSE i \in 1..Len(ss) :
                /\ ss[i].Format # ""
                /\ \A j \in 1..(i - 1) : ss[j].Format = ""].Format
    ELSE ""

\* C19: merge(a,b).format is a.format when that is non-empty and b.format
\* otherwise; so the MergeSchemas result for a bucket has the format of the
\* earliest-added schema with a non-empty format, or none.
C19_FormatFirstWins ==
    /\ PairDone =>
          /\ pair[1].ab[1].Format = FirstNonEmptyFormat(<<pair[1].a, pair[1].b>>)
          /\ pair[1].ba[1].Format = FirstNonEmptyFormat(<<pair[1].b, pair[1].a>>)
    /\ (FoldDone /\ Bucket # <<>>) =>
          merged[1].result.Format = FirstNonEmptyFormat(Bucket)

\* C19 witness: MergeSchemas returned the second schema's format for a
\* bucket whose first schema has no format and whose third has another one.
C19_Witness ==
    /\ FoldDone
    /\ Len(Bucket) = 3
    /\ Bucket[1].Format = ""
    /\ Bucket[2].Format = "uuid"
    /\ Bucket[3].Format = "date"
    /\ merged[1].result.Format = "uuid"

\* v equals its truncation to a 64-bit integer: v is integral and lies
\* between -2^63 and 2^63 - 1.
EqualsInt64Truncation(v) ==
    /\ v.e > 0 \/ v.h % 2 = 0
    /\ ScaledLess(v, Scaled(2, 63))
    /\ ~ScaledLess(v, Scaled(-2, 63))

\* C20: inferring a schema from a single numeric value v gives type integer
\* with format int64 iff v equals its truncation to a 64-bit integer, and
\* type number with format double otherwise.
C20_IntegerIffEqualsTruncation ==
    (LastIs("inferType") \/ LastIs("inferSchema")) =>
        LET v == lastOp[1].value[1]
            sch == lastOp[1].schema[1]
        IN  IF EqualsInt64Truncation(v)
            THEN sch.Type = "integer" /\ sch.Format = "int64"
            ELSE sch.Type = "number" /\ sch.Format = "double"

\* C17: MergeSchemas on a key for which exactly one schema was added returns
\* that schema, field for field, whatever was added under other keys.
C17_SingleSchemaReturnedUnchanged ==
    (FoldDone /\ Len(Bucket) = 1) => merged[1].result = Bucket[1]

\* C17 witness: MergeSchemas returned the one object schema of its key
\* while two other schemas were held for the same path under another method.
C17_Witness ==
    /\ FoldDone
    /\ Len(calls) = 3
    /\ Len(Bucket) = 1
    /\ Bucket[1].Type = "object"
    /\ merged[1].result = Bucket[1]
    /\ \E m \in Methods :
          /\ m # merged[1].method
          /\ Len(SubLog(merged[1].path, m)) = 2
          /\ \A i \in 1..2 : SubLog(merged[1].path, m)[i].schema.Type = "string"

\* MergeSchemas on a key that received no schema returns the empty schema.
C18_State == (FoldDone /\ Bucket = <<>>) => merged[1].result = EmptySchema

\* A MergeSchemas call leaves the buckets as they are.
C18_Step == (merged' # Nil /\ calls' = calls) => schemas' = schemas

\* C18: after any sequence of AddSchema calls to other keys, MergeSchemas on
\* a key that never received a schema returns the empty placeholder Schema,
\* every field unset, and creates no state.
C18_NoSchemasGivesEmptySchema == []C18_State /\ [][C18_Step]_vars

\* C18 witness: MergeSchemas returned the empty schema for a key that
\* received nothing, after three object schemas were added under the same
\* path with another method and under another path with the same method.
C18_Witness ==
    /\ FoldDone
    /\ Bucket = <<>>
    /\ Key(merged[1].path, merged[1].method) \notin DOMAIN schemas
    /\ Len(calls) = 3
    /\ \A i \in 1..3 : calls[i].schema.Type = "object"
    /\ \E i \in 1..3 :
          calls[i].path = merged[1].path /\ calls[i].method # merged[1].method
    /\ \E i \in 1..3 :
          calls[i].path # merged[1].path /\ calls[i].method = merged[1].method
    /\ merged[1].result = EmptySchema

\* The numbers of a sample list, all of exponent 0, in halves.
HalvesOf(ss) == {ss[i].h : i \in 1..Len(ss)}

\* C21: number enhancement of at least 3 numeric samples gives type integer
\* when every sample is integral, with format int32 when the minimum is >= 0
\* and the maximum <= 255 and int64 otherwise, and type number with format
\* double when some sample is not integral; with fewer than 3 samples type
\* and format stay as they were.
C21_NumberEnhancement ==
    LastIs("enhanceNumberSchema") =>
        LET ss == samples[lastOp[1].path]
            sch == lastOp[1].schema[1]
            given == lastOp[1].given
        IN  IF Len(ss) >= 3
            THEN IF \A h \in HalvesOf(ss) : h % 2 = 0
                 THEN /\ sch.Type = "integer"
                      /\ sch.Format =
                            IF \A h \in HalvesOf(ss) : h >= 0 /\ h <= 2 * 255
                            THEN "int32" ELSE "int64"
                 ELSE sch.Type = "number" /\ sch.Format = "double"
            ELSE sch.Type = given.Type /\ sch.Format = given.Format

\* C21 witness: three integral samples with minimum 0 and maximum 255 turned
\* a bare number schema into integer/int32.
C21_Witness ==
    /\ LastIs("enhanceNumberSchema")
    /\ Len(samples[Root]) = 3
    /\ HalvesOf(samples[Root]) = {0, 510}
    /\ lastOp[1].given.Type = "number"
    /\ lastOp[1].given.Format = ""
    /\ lastOp[1].schema[1].Type = "integer"
    /\ lastOp[1].schema[1].Format = "int32"

\* A ResetSamples call leaves no path with a sample; an InferSchema call on
\* a path that holds no sample returns no schema and changes nothing.
C22_Step ==
    /\ (lastOp' # Nil /\ lastOp'[1].op = "ResetSamples") => DOMAIN samples' = {}
    /\ (lastOp' # Nil /\ lastOp'[1].op = "InferSchema"
            /\ SamplesAt(samples, lastOp'[1].path) = <<>>) =>
          (lastOp'[1].schema = Nil /\ samples' = samples)

\* C22: after ResetSamples no path holds a sample, and InferSchema(p)
\* returns no schema for every path p that holds no sample: a path never
\* sampled, sampled only with nulls, or not sampled again since the last
\* reset.
C22_NoSamplesNoSchema == [][C22_Step]_vars

\* C22 witness: InferSchema returned no schema for the root path, which was
\* fed a null and holds no sample.
C22_Witness ==
    /\ LastIs("InferSchema")
    /\ lastOp[1].path = Root
    /\ lastOp[1].schema = Nil
    /\ Root \in nullFed
    /\ samples = EmptyMap

\* C25: InferSchema on a path whose samples are all objects returns a schema
\* whose properties include every key that occurs in any of the samples, a
\* key missing from some sample being marked nullable.
C25_AllObjectsInferAllKeys ==
    (LastIs("InferSchema") /\ lastOp[1].schema # Nil
        /\ \A i \in 1..Len(samples[lastOp[1].path]) :
              samples[lastOp[1].path][i].k = "obj") =>
        LET ss == samples[lastOp[1].path]
            sch == lastOp[1].schema[1]
        IN  /\ sch.Type = "object"
            /\ sch.Properties # Nil
            /\ \A i \in 1..Len(ss) : DOMAIN ss[i].m \subseteq DOMAIN sch.Properties[1]
            /\ \A name \in DOMAIN sch.Properties[1] :
                  (\E i \in 1..Len(ss) : name \notin DOMAIN ss[i].m) =>
                      sch.Properties[1][name].Nullable

RECURSIVE Flat(_)
\* The items of the array samples of a list, in order.
Flat(ss) ==
    IF ss = <<>> THEN <<>>
    ELSE (IF Head(ss).k = "arr" THEN Head(ss).a ELSE <<>>) \o Flat(Tail(ss))

\* The first n elements of a sequence.
FirstN(s, n) == SubSeq(s, 1, IF Len(s) < n THEN Len(s) ELSE n)

\* C26: array enhancement inspects at most maxSamples items in total; the
\* items schema is the one the first maxSamples items of the array samples
\* give, whatever items follow them.
C26_ArrayItemsCapped ==
    (LastIs("enhanceArraySchema") \/ LastIs("InferSchema")) =>
        LET ss == samples[Root]
        IN  /\ Len(CollectItems(<<>>, ss, maxSamples)) <= maxSamples
            /\ \E order \in StrOrders :
                  lastOp[1].schema =
                      Some(enhanceArraySchema(inferType(ss[1]),
                               <<Arr(FirstN(Flat(ss), maxSamples))>>,
                               maxSamples, order))

\* C27: two evaluations of merge(a, b) on the same inputs give results that
\* are equal under AreSchemasEqual, the order of the enum included, and so
\* do two MergeSchemas calls on an unchanged bucket.
C27_Step ==
    /\ (pair # Nil /\ pair[1].ab # Nil /\ pair' # Nil
            /\ pair'[1].a = pair[1].a /\ pair'[1].b = pair[1].b) =>
          AreSchemasEqual(pair[1].ab[1], pair'[1].ab[1])
    /\ (merged # Nil /\ merged' # Nil /\ schemas' = schemas
            /\ merged'[1].path = merged[1].path
            /\ merged'[1].method = merged[1].method) =>
          AreSchemasEqual(merged[1].result, merged'[1].result)

C27_MergeIsDeterministic == [][C27_Step]_vars

\* The type the claim C28 gives merge(a, b).
TypeOfFirstUnlessConflict(a, b) ==
    IF a.Type # "" /\ b.Type # "" /\ a.Type # b.Type THEN "object" ELSE a.Type

\* C28: merge(a,b).type is a.type unless both types are non-empty and
\* differ; an empty a.type stays empty whatever b's type is, while
\* merge(b,a) keeps b's type. So MergeSchemas returns an empty type for a
\* bucket whose first schema has an empty type.
C28_EmptyFirstTypeStays ==
    /\ PairDone =>
          /\ pair[1].ab[1].Type = TypeOfFirstUnlessConflict(pair[1].a, pair[1].b)
          /\ pair[1].ba[1].Type = TypeOfFirstUnlessConflict(pair[1].b, pair[1].a)
    /\ (FoldDone /\ Bucket # <<>> /\ Bucket[1].Type = "") =>
          merged[1].result.Type = ""

\* C28 witness: MergeSchemas returned an empty type for a bucket of three
\* schemas of which the first is untyped and the others are typed
\* differently.
C28_Witness ==
    /\ FoldDone
    /\ Len(Bucket) = 3
    /\ Bucket[1].Type = ""
    /\ Bucket[2].Type = "string"
    /\ Bucket[3].Type = "object"
    /\ merged[1].result.Type = ""

\* A number with a fractional part: an odd count of halves.
Fractional(v) == v.k = "num" /\ v.e = 0 /\ v.h % 2 # 0

\* C29: when InferSchema(path) returns type integer, no numeric sample
\* retained for the path has a fractional part, in the homogeneous and in
\* the mixed-type branch.
C29_IntegerMeansNoFraction ==
    (LastIs("InferSchema") /\ lastOp[1].schema # Nil
        /\ lastOp[1].schema[1].Type = "integer") =>
        \A i \in 1..Len(samples[lastOp[1].path]) :
            ~Fractional(samples[lastOp[1].path][i])

\* C29 witness: InferSchema returned integer in the mixed-type branch, for
\* three integral numbers and a string.
C29_Witness ==
    /\ LastIs("InferSchema")
    /\ lastOp[1].schema # Nil
    /\ lastOp[1].schema[1].Type = "integer"
    /\ Len(samples[Root]) = 4
    /\ CountKind(samples[Root], "str") = 1
    /\ CountKind(samples[Root], "num") = 3

\* C23: a call of merge(a, b) or MergeSchemas leaves the bucket sequences as
\* they were, and every schema of the buckets (a and b among them) stands
\* for the same value after the call as before: no map and no pointed-to
\* schema reachable from them was written.
C23_Step ==
    /\ schemas' = schemas
    /\ \A key \in DOMAIN schemas : \A i \in 1..Len(schemas[key]) :
          Load(heap', schemas'[key][i]) = Load(heap, schemas[key][i])
    /\ \A addr \in 1..Len(heap) : heap'[addr] = heap[addr]

C23_MergeLeavesInputsAlone == [][C23_Step]_vars

\* C23 witness: a second MergeSchemas call returned, for a bucket of two
\* objects, a schema that differs from the first schema of the bucket, in
\* maps allocated by the call.
C23_Witness ==
    /\ frame # Nil
    /\ frame[1].fn = "MergeSchemas"
    /\ ~frame[1].first
    /\ Len(heap) > Len(frame[1].before)
    /\ LET bucket == schemas[Key(FoldPath, FoldMethod)]
       IN  /\ Len(bucket) = 2
           /\ bucket[1].Type = "object"
           /\ bucket[2].Type = "object"
           /\ Load(heap, frame[1].result) # Load(heap, bucket[1])

\* C30: ApplyTypeInference does not modify the schema passed in: after the
\* call the caller's schema stands for the same value as before, its
\* properties map and the maps of its nested property schemas included.
C30_ArgumentUntouched ==
    (frame # Nil /\ frame[1].fn = "ApplyTypeInference" /\ frame[1].result # Nil) =>
        Load(heap, frame[1].schema) = Load(frame[1].before[1], frame[1].schema)

\* The transactions of the batch for an endpoint path.
TxOf(path) == {i \in 1..Len(transactions) : transactions[i].Path = path}

\* The request body of a transaction decodes; its response body decodes,
\* as it is or from base64, as an object or as an array.
RequestDecodes(tx) == tx.ReqBody # Nil /\ DecodeObject(tx.ReqBody[1]) # Nil
ResponseDecodes(tx) ==
    /\ tx.RespBody # Nil
    /\ \/ DecodeObject(maybeDecodeBase64(tx.RespBody[1])) # Nil
       \/ DecodeArray(maybeDecodeBase64(tx.RespBody[1])) # Nil

\* The samples, and the schemas of the bucket, held for a key.
Held(m, key) == IF key \in DOMAIN m THEN Len(m[key]) ELSE 0

\* The bodies that fail to decode added nothing: what is held for a path
\* is accounted for by the bodies that decode.
C24_FailedBodiesAddNothing ==
    \A path \in {GoodPath, OtherPath} :
        LET g == generated[1]
            tx == Transaction(path, Nil, Nil)
            reqs == Cardinality({i \in TxOf(path) : RequestDecodes(transactions[i])})
            resps == Cardinality({i \in TxOf(path) : ResponseDecodes(transactions[i])})
        IN  /\ Held(g.samples, SampleKey("request", tx)) = reqs
            /\ Held(g.schemas, Key(path, tx.Method)) = reqs
            /\ Held(g.samples, SampleKey("response", tx)) <= resps
            /\ Held(g.schemas, Key(ResponsePath(path), tx.Method)) <= resps

\* The merged request schema of an endpoint has the keys of every request
\* body of the endpoint that decodes and parses: what the earlier
\* transactions gave is still there after one that failed.
C24_EarlierSchemasKept ==
    \A path \in {GoodPath, OtherPath} :
        LET g == generated[1]
            ep == <<path, <<"POST">> >>
        IN  (ep \in DOMAIN g.ops /\ g.ops[ep].request # Nil) =>
                \A i \in TxOf(path) :
                    RequestDecodes(transactions[i]) =>
                        /\ g.ops[ep].request[1].Properties # Nil
                        /\ "id" \in DOMAIN g.ops[ep].request[1].Properties[1]

\* C24: GenerateSpec on any batch of transactions completes and returns no
\* error; a body that fails to decode adds no sample and no schema, and the
\* schemas of the transactions before it are in the merged result.
C24_GenerateSpecNeverFails ==
    generated # Nil =>
        /\ generated[1].outcome = "returned"
        /\ generated[1].err = Nil
        /\ C24_FailedBodiesAddNothing
        /\ C24_EarlierSchemasKept

====
